---- MODULE Spec2Model ----
(***************************************************************************)
(* Model of the pxp-agent external-module engine: module loading           *)
(* (ExternalModule constructors, getMetadata, registerActions), action     *)
(* execution (callBlockingAction, callNonBlockingAction,                   *)
(* readNonBlockingOutcome, processRequestOutcome) and message emission     *)
(* (the send operations of PXPConnector).                                 *)
(*                                                                         *)
(* Texts (a child's stdout, a file's content, a serialized document) are   *)
(* sequences of lexical tokens; JSON documents are trees.  Parsing and     *)
(* serialization are computed, so a text is valid JSON only when the       *)
(* parser accepts it.                                                      *)
(***************************************************************************)
EXTENDS Integers, Sequences, FiniteSets, TLC

(***************************************************************************)
(* Bounds of the model.                                                    *)
(***************************************************************************)
\* longest stdout text (in tokens) enumerated for outcome parsing
MaxLen == 3
\* number of requests delivered by the connector in one run
MaxRequests == 2
\* number of metadata probes followed in one run
MaxProbes == 2

(***************************************************************************)
(* Program constants.                                                      *)
(***************************************************************************)
EXTERNAL_MODULE_FILE_ERROR_EC == 5
EXIT_SUCCESS == 0
DEFAULT_MSG_TIMEOUT_SEC == 2

(***************************************************************************)
(* JSON documents (leatherman JsonContainer).  A std::string is a sequence  *)
(* of pieces (the empty string is << >>, concatenation is \o).  Every      *)
(* node of a document has the same shape [k, s, e]: k the kind, s the      *)
(* scalar's text (or a member's key), e the children.                      *)
(***************************************************************************)
Str(piece) == <<piece>>

JNull == [k |-> "null", s |-> <<>>, e |-> <<>>]
JNum(n) == [k |-> "num", s |-> Str(n), e |-> <<>>]
JStr(str) == [k |-> "str", s |-> str, e |-> <<>>]
JArr(items) == [k |-> "arr", s |-> <<>>, e |-> items]
JMem(key, val) == [k |-> "mem", s |-> Str(key), e |-> <<val>>]
JObj(members) == [k |-> "obj", s |-> <<>>, e |-> members]

\* lexical tokens of a text: v is the token's text
TPunct(c) == [t |-> "punct", v |-> Str(c)]
TNull == [t |-> "lit", v |-> Str("null")]
TNum(n) == [t |-> "num", v |-> Str(n)]
TStr(str) == [t |-> "str", v |-> str]
\* bytes that start no JSON token
TBad(x) == [t |-> "bad", v |-> Str(x)]

IsPunct(toks, i, c) == i <= Len(toks) /\ toks[i] = TPunct(c)

Fail == [ok |-> FALSE, val |-> JNull, next |-> 0]

RECURSIVE ParseValue(_, _)
RECURSIVE ParseElems(_, _, _)
RECURSIVE ParseMembers(_, _, _)

\* the elements of an array after "[": toks[i] starts an element
ParseElems(toks, i, acc) ==
    LET r == ParseValue(toks, i) IN
    IF ~r.ok THEN Fail
    ELSE IF IsPunct(toks, r.next, "]")
         THEN [ok |-> TRUE, val |-> JArr(Append(acc, r.val)), next |-> r.next + 1]
    ELSE IF IsPunct(toks, r.next, ",")
         THEN ParseElems(toks, r.next + 1, Append(acc, r.val))
    ELSE Fail

\* the members of an object after "{": toks[i] starts a key
ParseMembers(toks, i, acc) ==
    IF ~(i + 1 <= Len(toks) /\ toks[i].t = "str" /\ toks[i + 1] = TPunct(":"))
    THEN Fail
    ELSE LET r == ParseValue(toks, i + 2) IN
         IF ~r.ok THEN Fail
         ELSE IF IsPunct(toks, r.next, "}")
              THEN [ok |-> TRUE,
                    val |-> JObj(Append(acc, [JMem("", r.val) EXCEPT !.s = toks[i].v])),
                    next |-> r.next + 1]
         ELSE IF IsPunct(toks, r.next, ",")
              THEN ParseMembers(toks, r.next + 1,
                                Append(acc, [JMem("", r.val) EXCEPT !.s = toks[i].v]))
         ELSE Fail

ParseValue(toks, i) ==
    IF i > Len(toks) THEN Fail
    ELSE IF toks[i] = TNull THEN [ok |-> TRUE, val |-> JNull, next |-> i + 1]
    ELSE IF toks[i].t = "num"
         THEN [ok |-> TRUE, val |-> [JNull EXCEPT !.k = "num", !.s = toks[i].v],
               next |-> i + 1]
    ELSE IF toks[i].t = "str"
         THEN [ok |-> TRUE, val |-> JStr(toks[i].v), next |-> i + 1]
    ELSE IF toks[i] = TPunct("[")
         THEN IF IsPunct(toks, i + 1, "]")
              THEN [ok |-> TRUE, val |-> JArr(<<>>), next |-> i + 2]
              ELSE ParseElems(toks, i + 1, <<>>)
    ELSE IF toks[i] = TPunct("{")
         THEN IF IsPunct(toks, i + 1, "}")
              THEN [ok |-> TRUE, val |-> JObj(<<>>), next |-> i + 2]
              ELSE ParseMembers(toks, i + 1, <<>>)
    ELSE Fail

\* JsonContainer's constructor from a text: one value and nothing after it;
\* data_parse_error otherwise (the empty text included)
ParseJson(toks) ==
    LET r == ParseValue(toks, 1) IN
    IF r.ok /\ r.next = Len(toks) + 1
    THEN [ok |-> TRUE, val |-> r.val]
    ELSE [ok |-> FALSE, val |-> JNull]

RECURSIVE toString(_)
RECURSIVE JoinItems(_)
\* children of an array or object, comma separated
JoinItems(items) ==
    IF items = <<>> THEN <<>>
    ELSE IF Len(items) = 1 THEN toString(items[1])
    ELSE toString(items[1]) \o <<TPunct(",")>> \o JoinItems(Tail(items))

\* JsonContainer::toString
toString(doc) ==
    CASE doc.k = "null" -> <<TNull>>
      [] doc.k = "num" -> <<[t |-> "num", v |-> doc.s]>>
      [] doc.k = "str" -> <<TStr(doc.s)>>
      [] doc.k = "arr" -> <<TPunct("[")>> \o JoinItems(doc.e) \o <<TPunct("]")>>
      [] doc.k = "mem" -> <<TStr(doc.s), TPunct(":")>> \o toString(doc.e[1])
      [] doc.k = "obj" -> <<TPunct("{")>> \o JoinItems(doc.e) \o <<TPunct("}")>>

\* JsonContainer::includes / get / set / empty on a root object
Includes(doc, key) ==
    doc.k = "obj" /\ \E i \in 1..Len(doc.e) : doc.e[i].s = Str(key)

Get(doc, key) ==
    LET i == CHOOSE j \in 1..Len(doc.e) :
                 doc.e[j].s = Str(key) /\ \A h \in 1..(j - 1) : doc.e[h].s # Str(key)
    IN doc.e[i].e[1]

Set(doc, key, val) ==
    IF Includes(doc, key)
    THEN JObj([i \in 1..Len(doc.e) |->
                  IF doc.e[i].s = Str(key) THEN JMem(key, val) ELSE doc.e[i]])
    ELSE JObj(Append(doc.e, JMem(key, val)))

Empty(doc) == doc.k \in {"obj", "arr"} /\ doc.e = <<>>

(***************************************************************************)
(* Errors and results.  A call or a load either returns or throws; thrown  *)
(* is the exception's type ("none" when it returned), what its message.    *)
(***************************************************************************)
RECURSIVE Flatten(_)
\* the std::string a text is: the pieces of its tokens, in order
Flatten(toks) == IF toks = <<>> THEN <<>> ELSE Head(toks).v \o Flatten(Tail(toks))

\* whether the string msg contains the piece
Contains(msg, piece) == \E i \in 1..Len(msg) : msg[i] = piece

\* request.prettyLabel()
prettyLabel(request) ==
    <<request.type, " request ">> \o request.id \o <<" for ">>
        \o request.module \o <<" ">> \o request.action

ActionOutcome(exit_code, err_txt, out_txt, results) ==
    [thrown |-> "none", msg |-> <<>>, exit_code |-> exit_code,
     std_err |-> err_txt, std_out |-> out_txt, results |-> results]

ProcessingError(msg) ==
    [thrown |-> "ProcessingError", msg |-> msg, exit_code |-> 0,
     std_err |-> <<>>, std_out |-> <<>>, results |-> JNull]

(***************************************************************************)
(* Schemas and validators (cpp-pcp-client).  A schema built from a JSON    *)
(* document constrains the type of the validated document; a validator is  *)
(* the set of the schemas registered in it.                                *)
(***************************************************************************)
TypeNames == {Str("object"), Str("array"), Str("string"), Str("number"), Str("null")}

KindOfType(t) ==
    CASE t = Str("object") -> "obj"
      [] t = Str("array") -> "arr"
      [] t = Str("string") -> "str"
      [] t = Str("number") -> "num"
      [] t = Str("null") -> "null"

\* PCPClient::Schema { name, json }: schema_error (ok = FALSE) when the
\* document is no schema
Schema(name, json) ==
    IF json.k # "obj" THEN [ok |-> FALSE, name |-> name, type |-> Str("any")]
    ELSE IF ~Includes(json, "type")
    THEN [ok |-> TRUE, name |-> name, type |-> Str("any")]
    ELSE LET t == Get(json, "type") IN
         IF t.k = "str" /\ t.s \in TypeNames
         THEN [ok |-> TRUE, name |-> name, type |-> t.s]
         ELSE [ok |-> FALSE, name |-> name, type |-> Str("any")]

includesSchema(validator, name) == \E sc \in validator : sc.name = name

\* Validator::validate: TRUE when doc satisfies the schema registered as name
validate(validator, doc, name) ==
    \E sc \in validator :
        /\ sc.name = name
        /\ (sc.type = Str("any") \/ doc.k = KindOfType(sc.type))

(***************************************************************************)
(* Module loading.                                                         *)
(***************************************************************************)
HasType(doc, key, kind) == Includes(doc, key) /\ Get(doc, key).k = kind
OptType(doc, key, kind) == ~Includes(doc, key) \/ Get(doc, key).k = kind

\* the action sub-schema of the metadata schema
actionSchemaValid(action) ==
    /\ action.k = "obj"
    /\ OptType(action, "description", "str")
    /\ HasType(action, "name", "str")
    /\ HasType(action, "input", "obj")
    /\ HasType(action, "results", "obj")

\* metadata_validator_.validate(metadata, METADATA_SCHEMA_NAME)
metadataValid(metadata) ==
    /\ metadata.k = "obj"
    /\ HasType(metadata, "description", "str")
    /\ OptType(metadata, "configuration", "obj")
    /\ HasType(metadata, "actions", "arr")
    /\ \A i \in 1..Len(Get(metadata, "actions").e) :
           actionSchemaValid(Get(metadata, "actions").e[i])

\* the module under construction: the members the constructor initializes
NewModule(path, config) ==
    [module_name |-> path.stem, path_ |-> path, config_ |-> config,
     actions |-> <<>>, input_validator_ |-> {}, results_validator_ |-> {},
     config_validator_ |-> {}]

Loaded(m) == [thrown |-> "none", what |-> "", module |-> m]
LoadFailure(type, what, m) == [thrown |-> type, what |-> what, module |-> m]

\* mutant: text on stderr does not stop the loading
getMetadata_StderrIgnored(exec) ==
    LET parsed == ParseJson(exec.output) IN
    IF ~parsed.ok
    THEN [thrown |-> "LoadingError",
          what |-> "metadata is not in a valid JSON format", metadata |-> JNull]
    ELSE IF ~metadataValid(parsed.val)
    THEN [thrown |-> "LoadingError",
          what |-> "metadata validation failure", metadata |-> JNull]
    ELSE [thrown |-> "none", what |-> "", metadata |-> parsed.val]

\* mutant: a probe that exits non-zero is a failed probe
getMetadata_ExitCodeChecked(exec) ==
    IF exec.error # <<>> \/ exec.exit_code # EXIT_SUCCESS
    THEN [thrown |-> "LoadingError",
          what |-> "failed to load external module metadata", metadata |-> JNull]
    ELSE LET parsed == ParseJson(exec.output) IN
         IF ~parsed.ok
         THEN [thrown |-> "LoadingError",
               what |-> "metadata is not in a valid JSON format", metadata |-> JNull]
         ELSE IF ~metadataValid(parsed.val)
         THEN [thrown |-> "LoadingError",
               what |-> "metadata validation failure", metadata |-> JNull]
         ELSE [thrown |-> "none", what |-> "", metadata |-> parsed.val]

\* the result of lth_exec::execute(path_, { "metadata" }) is exec
getMetadata(exec) ==
    IF exec.error # <<>>
    THEN [thrown |-> "LoadingError",
          what |-> "failed to load external module metadata", metadata |-> JNull]
    ELSE LET parsed == ParseJson(exec.output) IN
         IF ~parsed.ok
         THEN [thrown |-> "LoadingError",
               what |-> "metadata is not in a valid JSON format", metadata |-> JNull]
         ELSE IF ~metadataValid(parsed.val)
         THEN [thrown |-> "LoadingError",
               what |-> "metadata validation failure", metadata |-> JNull]
         ELSE [thrown |-> "none", what |-> "", metadata |-> parsed.val]

registerConfiguration(m, config_metadata) ==
    LET configuration_schema == Schema(m.module_name, config_metadata) IN
    IF ~configuration_schema.ok
    THEN LoadFailure("LoadingError", "invalid configuration schema of module", m)
    ELSE Loaded([m EXCEPT !.config_validator_ = @ \cup {configuration_schema}])

\* validateConfiguration: Validator::validate throws validation_error when
\* config_ does not satisfy the schema registered under the module name;
\* nothing is checked when no such schema is registered
validateConfiguration(m) ==
    IF includesSchema(m.config_validator_, m.module_name)
    THEN IF validate(m.config_validator_, m.config_, m.module_name)
         THEN [thrown |-> "none"]
         ELSE [thrown |-> "validation_error"]
    ELSE [thrown |-> "none"]

\* mutant: a validator that replaces the schema it holds under a name
registerAction_Overwrite(m, action) ==
    LET action_name == Get(action, "name").s
        input_schema == Schema(action_name, Get(action, "input"))
        results_schema == Schema(action_name, Get(action, "results"))
    IN
    IF ~input_schema.ok \/ ~results_schema.ok
    THEN LoadFailure("LoadingError", "invalid schemas of action", m)
    ELSE Loaded([m EXCEPT !.actions = Append(@, action_name),
                          !.input_validator_ = @ \cup {input_schema},
                          !.results_validator_ = @ \cup {results_schema}])

\* mutant: the results schema is built but not registered
registerAction_NoResultsSchema(m, action) ==
    LET action_name == Get(action, "name").s
        input_schema == Schema(action_name, Get(action, "input"))
        results_schema == Schema(action_name, Get(action, "results"))
        pushed == [m EXCEPT !.actions = Append(@, action_name)]
    IN
    IF ~input_schema.ok \/ ~results_schema.ok
    THEN LoadFailure("LoadingError", "invalid schemas of action", m)
    ELSE IF includesSchema(m.input_validator_, action_name)
    THEN LoadFailure("schema_redefinition_error", "already defined", pushed)
    ELSE Loaded([pushed EXCEPT !.input_validator_ = @ \cup {input_schema}])

\* Register the action: both schemas are built first, then the name is
\* stored and the schemas registered.  Validator::registerSchema throws
\* schema_redefinition_error for a name it holds already; that is neither a
\* schema_error nor a data_error, so no handler of the loading code takes it.
registerAction(m, action) ==
    LET action_name == Get(action, "name").s
        input_schema == Schema(action_name, Get(action, "input"))
        results_schema == Schema(action_name, Get(action, "results"))
        pushed == [m EXCEPT !.actions = Append(@, action_name)]
        with_input == [pushed EXCEPT !.input_validator_ = @ \cup {input_schema}]
    IN
    IF ~input_schema.ok \/ ~results_schema.ok
    THEN LoadFailure("LoadingError", "invalid schemas of action", m)
    ELSE IF includesSchema(m.input_validator_, action_name)
    THEN LoadFailure("schema_redefinition_error", "already defined", pushed)
    ELSE IF includesSchema(m.results_validator_, action_name)
    THEN LoadFailure("schema_redefinition_error", "already defined", with_input)
    ELSE Loaded([with_input EXCEPT !.results_validator_ = @ \cup {results_schema}])

RECURSIVE registerEach(_, _)
\* the loop of registerActions over the actions still to register
registerEach(m, todo) ==
    IF todo = <<>> THEN Loaded(m)
    ELSE LET r == registerAction(m, Head(todo)) IN
         IF r.thrown # "none" THEN r ELSE registerEach(r.module, Tail(todo))

registerActions(m, metadata) == registerEach(m, Get(metadata, "actions").e)

\* ExternalModule(path, config): exec is what the metadata probe produced
ExternalModule(path, config, exec) ==
    LET m == NewModule(path, config)
        meta == getMetadata(exec)
    IN
    IF meta.thrown # "none" THEN LoadFailure(meta.thrown, meta.what, m)
    ELSE IF Includes(meta.metadata, "configuration")
    THEN LET c == registerConfiguration(m, Get(meta.metadata, "configuration")) IN
         IF c.thrown # "none" THEN c ELSE registerActions(c.module, meta.metadata)
    ELSE registerActions(m, meta.metadata)

\* ExternalModule(path): no config, no configuration schema
ExternalModuleNoConfig(path, exec) ==
    LET m == NewModule(path, JObj(<<>>))
        meta == getMetadata(exec)
    IN
    IF meta.thrown # "none" THEN LoadFailure(meta.thrown, meta.what, m)
    ELSE registerActions(m, meta.metadata)

(***************************************************************************)
(* Action execution.  exec is what lth_exec::execute returned for the      *)
(* child: [exit_code, output, error].  A file of a results directory is    *)
(* [exists, readable, content].                                            *)
(***************************************************************************)
NoFile == [exists |-> FALSE, readable |-> FALSE, content |-> <<>>]
File(content) == [exists |-> TRUE, readable |-> TRUE, content |-> content]
\* a file lth_file::read cannot open
LockedFile(content) == [exists |-> TRUE, readable |-> FALSE, content |-> content]

\* (r_d_p / name).string()
PathIn(results_dir, name) == results_dir \o <<"/", name>>

\* mutant: the configuration is stored whether it is empty or not
getActionArguments_ConfigAlways(m, request) ==
    LET with_config == Set(Set(JObj(<<>>), "input", request.params),
                           "configuration", m.config_)
        output_files ==
            JObj(<<JMem("stdout", JStr(PathIn(request.results_dir, "stdout"))),
                   JMem("stderr", JStr(PathIn(request.results_dir, "stderr"))),
                   JMem("exitcode", JStr(PathIn(request.results_dir, "exitcode")))>>)
    IN toString(IF request.type = "NonBlocking"
                THEN Set(with_config, "output_files", output_files)
                ELSE with_config)

\* mutant: output_files is given to the child of a blocking call too
getActionArguments_OutputFilesAlways(m, request) ==
    LET with_input == Set(JObj(<<>>), "input", request.params)
        output_files ==
            JObj(<<JMem("stdout", JStr(PathIn(request.results_dir, "stdout"))),
                   JMem("stderr", JStr(PathIn(request.results_dir, "stderr"))),
                   JMem("exitcode", JStr(PathIn(request.results_dir, "exitcode")))>>)
    IN toString(Set(IF ~Empty(m.config_)
                    THEN Set(with_input, "configuration", m.config_)
                    ELSE with_input,
                    "output_files", output_files))

\* mutant: the params are wrapped before they are stored as input
getActionArguments_WrappedInput(m, request) ==
    LET with_input == Set(JObj(<<>>), "input", JArr(<<request.params>>))
        output_files ==
            JObj(<<JMem("stdout", JStr(PathIn(request.results_dir, "stdout"))),
                   JMem("stderr", JStr(PathIn(request.results_dir, "stderr"))),
                   JMem("exitcode", JStr(PathIn(request.results_dir, "exitcode")))>>)
        with_config == IF ~Empty(m.config_)
                       THEN Set(with_input, "configuration", m.config_)
                       ELSE with_input
    IN toString(IF request.type = "NonBlocking"
                THEN Set(with_config, "output_files", output_files)
                ELSE with_config)

getActionArguments(m, request) ==
    LET with_input == Set(JObj(<<>>), "input", request.params)
        with_config == IF ~Empty(m.config_)
                       THEN Set(with_input, "configuration", m.config_)
                       ELSE with_input
        output_files ==
            JObj(<<JMem("stdout", JStr(PathIn(request.results_dir, "stdout"))),
                   JMem("stderr", JStr(PathIn(request.results_dir, "stderr"))),
                   JMem("exitcode", JStr(PathIn(request.results_dir, "exitcode")))>>)
    IN toString(IF request.type = "NonBlocking"
                THEN Set(with_config, "output_files", output_files)
                ELSE with_config)

\* mutant: a read failure on the stderr file is fatal too
readNonBlockingOutcome_StderrFatal(request, out_file, err_file) ==
    LET calls == {<<"exists", "stderr">>, <<"exists", "stdout">>} IN
    IF (err_file.exists /\ ~err_file.readable)
          \/ (out_file.exists /\ ~out_file.readable)
    THEN [thrown |-> "ProcessingError", out_txt |-> <<>>, err_txt |-> <<>>,
          accessed |-> calls]
    ELSE [thrown |-> "none",
          out_txt |-> IF out_file.exists THEN out_file.content ELSE <<>>,
          err_txt |-> IF err_file.exists THEN err_file.content ELSE <<>>,
          accessed |-> calls]

\* lth_file::read: the content on success; on failure the text is untouched
\* (empty).  accessed lists the file-system calls made.
readNonBlockingOutcome(request, out_file, err_file) ==
    LET err_txt == IF err_file.exists /\ err_file.readable
                   THEN err_file.content ELSE <<>>
        err_calls == {<<"exists", "stderr">>} \cup
                     (IF err_file.exists THEN {<<"read", "stderr">>} ELSE {})
        out_calls == {<<"exists", "stdout">>} \cup
                     (IF out_file.exists THEN {<<"read", "stdout">>} ELSE {})
    IN
    IF ~out_file.exists
    THEN [thrown |-> "none", out_txt |-> <<>>, err_txt |-> err_txt,
          accessed |-> err_calls \cup out_calls]
    ELSE IF ~out_file.readable
    THEN [thrown |-> "ProcessingError", out_txt |-> <<>>, err_txt |-> err_txt,
          accessed |-> err_calls \cup out_calls]
    ELSE [thrown |-> "none", out_txt |-> out_file.content, err_txt |-> err_txt,
          accessed |-> err_calls \cup out_calls]

\* mutant: the empty text is parsed as it is, not as null
processRequestOutcome_NoNullSubstitute(request, exit_code, out_txt, err_txt) ==
    LET parsed == ParseJson(out_txt) IN
    IF parsed.ok
    THEN ActionOutcome(exit_code, err_txt, out_txt, parsed.val)
    ELSE ProcessingError(
             <<"The task executed for the ">> \o prettyLabel(request)
                 \o <<" ", IF out_txt = <<>>
                           THEN "returned no output on stdout"
                           ELSE "returned invalid JSON on stdout",
                      " - stderr:">>
                 \o (IF err_txt = <<>> THEN <<" (empty)">>
                     ELSE <<"\n">> \o Flatten(err_txt)))

\* mutant: the two messages of the parse failure are exchanged
processRequestOutcome_SwappedMessages(request, exit_code, out_txt, err_txt) ==
    LET parsed == ParseJson(IF out_txt = <<>> THEN <<TNull>> ELSE out_txt) IN
    IF parsed.ok
    THEN ActionOutcome(exit_code, err_txt, out_txt, parsed.val)
    ELSE ProcessingError(
             <<"The task executed for the ">> \o prettyLabel(request)
                 \o <<" ", IF out_txt # <<>>
                           THEN "returned no output on stdout"
                           ELSE "returned invalid JSON on stdout",
                      " - stderr:">>
                 \o (IF err_txt = <<>> THEN <<" (empty)">>
                     ELSE <<"\n">> \o Flatten(err_txt)))

\* mutant: a non-zero exit code is an error
processRequestOutcome_NonZeroExitFatal(request, exit_code, out_txt, err_txt) ==
    LET parsed == ParseJson(IF out_txt = <<>> THEN <<TNull>> ELSE out_txt) IN
    IF parsed.ok /\ exit_code = EXIT_SUCCESS
    THEN ActionOutcome(exit_code, err_txt, out_txt, parsed.val)
    ELSE ProcessingError(
             <<"The task executed for the ">> \o prettyLabel(request)
                 \o <<" ", IF out_txt = <<>>
                           THEN "returned no output on stdout"
                           ELSE "returned invalid JSON on stdout",
                      " - stderr:">>
                 \o (IF err_txt = <<>> THEN <<" (empty)">>
                     ELSE <<"\n">> \o Flatten(err_txt)))

processRequestOutcome(request, exit_code, out_txt, err_txt) ==
    LET parsed == ParseJson(IF out_txt = <<>> THEN <<TNull>> ELSE out_txt) IN
    IF parsed.ok
    THEN ActionOutcome(exit_code, err_txt, out_txt, parsed.val)
    ELSE ProcessingError(
             <<"The task executed for the ">> \o prettyLabel(request)
                 \o <<" ", IF out_txt = <<>>
                           THEN "returned no output on stdout"
                           ELSE "returned invalid JSON on stdout",
                      " - stderr:">>
                 \o (IF err_txt = <<>> THEN <<" (empty)">>
                     ELSE <<"\n">> \o Flatten(err_txt)))

\* what a call did: its result, the file-system calls it made on the results
\* directory, the text it fed to the child and the texts it handed to
\* outcome parsing (parsed = FALSE when parsing was not reached)
CallResult(r, accessed, input_txt, was_parsed, out_txt, err_txt) ==
    [ret |-> r, accessed |-> accessed, input_txt |-> input_txt,
     parsed |-> was_parsed, out_txt |-> out_txt, err_txt |-> err_txt]

callBlockingAction(m, request, exec) ==
    CallResult(processRequestOutcome(request, exec.exit_code, exec.output, exec.error),
               {}, getActionArguments(m, request), TRUE, exec.output, exec.error)

\* mutant: exit code 5 gets no special treatment
callNonBlockingAction_NoFileErrorCheck(m, request, exec, dir) ==
    LET input_txt == getActionArguments(m, request)
        read == readNonBlockingOutcome(request, dir.stdout, dir.stderr)
    IN
    IF read.thrown # "none"
    THEN CallResult(ProcessingError(Str("failed to read")),
                    read.accessed, input_txt, FALSE, <<>>, <<>>)
    ELSE CallResult(processRequestOutcome(request, exec.exit_code,
                                          read.out_txt, read.err_txt),
                    read.accessed, input_txt, TRUE, read.out_txt, read.err_txt)

\* dir is the results directory as the child left it
callNonBlockingAction(m, request, exec, dir) ==
    LET input_txt == getActionArguments(m, request)
        read == readNonBlockingOutcome(request, dir.stdout, dir.stderr)
    IN
    IF exec.exit_code = EXTERNAL_MODULE_FILE_ERROR_EC
    THEN CallResult(ProcessingError(Str("failed to write output on file")),
                    {}, input_txt, FALSE, <<>>, <<>>)
    ELSE IF read.thrown # "none"
    THEN CallResult(ProcessingError(Str("failed to read")),
                    read.accessed, input_txt, FALSE, <<>>, <<>>)
    ELSE CallResult(processRequestOutcome(request, exec.exit_code,
                                          read.out_txt, read.err_txt),
                    read.accessed, input_txt, TRUE, read.out_txt, read.err_txt)

\* assert(!request.resultsDir().empty()) is compiled in (NDEBUG is not
\* defined): a non-blocking request with no results directory aborts
callAction(m, request, exec, dir) ==
    IF request.type = "Blocking"
    THEN callBlockingAction(m, request, exec)
    ELSE IF request.results_dir = <<>>
    THEN CallResult([ProcessingError(Str("Assertion failed"))
                        EXCEPT !.thrown = "abort"],
                    {}, <<>>, FALSE, <<>>, <<>>)
    ELSE callNonBlockingAction(m, request, exec, dir)

(***************************************************************************)
(* PXPConnector.  The log lists the calls of Connector::send in order: the *)
(* arguments of each and whether it delivered the message (delivered) or   *)
(* threw connection_error.  Every send operation catches that error, so it *)
(* returns in both cases, having called send once.                         *)
(***************************************************************************)
Attempt(endpoints, message_type, timeout, data, debug, ok) ==
    [endpoints |-> endpoints, message_type |-> message_type, timeout |-> timeout,
     data |-> data, debug |-> debug, delivered |-> ok, for |-> 0]

\* mutant: no chunk is forwarded when the envelope had invalid ones
wrapDebug_DropWhenInvalid(request) ==
    IF request.num_invalid_debug # 0 THEN <<>>
    ELSE [i \in 1..Len(request.debug) |-> request.debug[i]]

\* the debug chunks of the request's parsed chunks, copied in order
wrapDebug(request) == [i \in 1..Len(request.debug) |-> request.debug[i]]

sendPCPError(lg, request_id, description, endpoints, ok) ==
    LET pcp_error_data ==
            Set(Set(JObj(<<>>), "id", JStr(request_id)),
                "description", JStr(description))
    IN Append(lg, Attempt(endpoints, "ERROR_MSG_TYPE", DEFAULT_MSG_TIMEOUT_SEC,
                          pcp_error_data, <<>>, ok))

\* sendPXPError without the id of the request
sendPXPError_NoId(lg, request, description, ok) ==
    LET pxp_error_data ==
            Set(Set(JObj(<<>>), "transaction_id", JStr(request.transaction_id)),
                "description", JStr(description))
    IN Append(lg, Attempt(<<request.sender>>, "PXP_ERROR_MSG_TYPE",
                          DEFAULT_MSG_TIMEOUT_SEC, pxp_error_data, <<>>, ok))

\* sendPXPError sending with the generic error type of PCP
sendPXPError_AsPCPError(lg, request, description, ok) ==
    LET pxp_error_data ==
            Set(Set(Set(JObj(<<>>), "transaction_id", JStr(request.transaction_id)),
                    "id", JStr(request.id)),
                "description", JStr(description))
    IN Append(lg, Attempt(<<request.sender>>, "ERROR_MSG_TYPE",
                          DEFAULT_MSG_TIMEOUT_SEC, pxp_error_data, <<>>, ok))

\* sendPXPError with the request id written as the transaction id
sendPXPError_IdAsTransaction(lg, request, description, ok) ==
    LET pxp_error_data ==
            Set(Set(Set(JObj(<<>>), "transaction_id", JStr(request.id)),
                    "id", JStr(request.id)),
                "description", JStr(description))
    IN Append(lg, Attempt(<<request.sender>>, "PXP_ERROR_MSG_TYPE",
                          DEFAULT_MSG_TIMEOUT_SEC, pxp_error_data, <<>>, ok))

sendPXPError(lg, request, description, ok) ==
    LET pxp_error_data ==
            Set(Set(Set(JObj(<<>>), "transaction_id", JStr(request.transaction_id)),
                    "id", JStr(request.id)),
                "description", JStr(description))
    IN Append(lg, Attempt(<<request.sender>>, "PXP_ERROR_MSG_TYPE",
                          DEFAULT_MSG_TIMEOUT_SEC, pxp_error_data, <<>>, ok))

\* sendBlockingResponse sending once more after a connection_error
sendBlockingResponse_Retry(lg, request, results, ok) ==
    LET debug == wrapDebug(request)
        response_data ==
            Set(Set(JObj(<<>>), "transaction_id", JStr(request.transaction_id)),
                "results", results)
        first == Append(lg, Attempt(<<request.sender>>, "BLOCKING_RESPONSE_TYPE",
                                    DEFAULT_MSG_TIMEOUT_SEC, response_data, debug, ok))
    IN IF ok THEN first
       ELSE Append(first, Attempt(<<request.sender>>, "BLOCKING_RESPONSE_TYPE",
                                  DEFAULT_MSG_TIMEOUT_SEC, response_data, debug, TRUE))

sendBlockingResponse(lg, request, results, ok) ==
    LET debug == wrapDebug(request)
        response_data ==
            Set(Set(JObj(<<>>), "transaction_id", JStr(request.transaction_id)),
                "results", results)
    IN Append(lg, Attempt(<<request.sender>>, "BLOCKING_RESPONSE_TYPE",
                          DEFAULT_MSG_TIMEOUT_SEC, response_data, debug, ok))

sendNonBlockingResponse(lg, request, results, job_id, ok) ==
    LET response_data ==
            Set(Set(Set(JObj(<<>>), "transaction_id", JStr(request.transaction_id)),
                    "job_id", JStr(job_id)),
                "results", results)
    IN Append(lg, Attempt(<<request.sender>>, "NON_BLOCKING_RESPONSE_TYPE",
                          DEFAULT_MSG_TIMEOUT_SEC, response_data, <<>>, ok))

\* sendProvisionalResponse giving up without a send
sendProvisionalResponse_NoSend(lg, request, ok) == lg

sendProvisionalResponse(lg, request, ok) ==
    LET debug == wrapDebug(request)
        provisional_data ==
            Set(JObj(<<>>), "transaction_id", JStr(request.transaction_id))
    IN Append(lg, Attempt(<<request.sender>>, "PROVISIONAL_RESPONSE_TYPE",
                          DEFAULT_MSG_TIMEOUT_SEC, provisional_data, debug, ok))

(***************************************************************************)
(* Inputs: the requests, the modules on disk and what children produce.    *)
(***************************************************************************)
SeqsUpTo(S, n) == UNION {[1..k -> S] : k \in 0..n}

\* the tokens a child's stdout is made of
OutTokens ==
    {TPunct("["), TPunct("]"), TPunct("{"), TPunct("}"), TNull, TNum("1"),
     TBad("oops")}

\* every stdout text of at most MaxLen tokens
OutTexts == SeqsUpTo(OutTokens, MaxLen)

\* stderr texts
ErrTexts == {<<>>, <<TBad("warning: deprecated")>>}

\* exit codes of a child: success, failure, the reserved file-error code
ExitCodes == {EXIT_SUCCESS, 1, 2, EXTERNAL_MODULE_FILE_ERROR_EC}

\* the metadata a well-behaved module `echo` prints: one action `reflect`
ReflectAction ==
    JObj(<<JMem("name", JStr(Str("reflect"))),
           JMem("input", JObj(<<JMem("type", JStr(Str("object")))>>)),
           JMem("results", JObj(<<JMem("type", JStr(Str("object")))>>))>>)

EchoMetadata ==
    JObj(<<JMem("description", JStr(Str("echo module"))),
           JMem("actions", JArr(<<ReflectAction>>))>>)

EchoPath == [dir |-> Str("/opt/modules"), stem |-> Str("echo"), ext |-> Str(".rb")]

ProbeOk(metadata) == [exit_code |-> EXIT_SUCCESS, output |-> toString(metadata),
                      error |-> <<>>]

\* the module `echo` as loaded without and with a config
EchoModule == ExternalModuleNoConfig(EchoPath, ProbeOk(EchoMetadata)).module
EchoConfig == JObj(<<JMem("greeting", JStr(Str("hi")))>>)
EchoModuleWithConfig ==
    ExternalModule(EchoPath, EchoConfig, ProbeOk(EchoMetadata)).module

\* an ActionRequest
Request(id, transaction_id, sender, module, action, type, params, debug, num_invalid_debug, results_dir) ==
    [id |-> id, transaction_id |-> transaction_id, sender |-> sender,
     module |-> module, action |-> action, type |-> type, params |-> params,
     debug |-> debug, num_invalid_debug |-> num_invalid_debug,
     results_dir |-> results_dir]

Dir(pid, stdout, stderr, exitcode) ==
    [pid |-> pid, stdout |-> stdout, stderr |-> stderr, exitcode |-> exitcode]
EmptyDir == Dir(NoFile, NoFile, NoFile, NoFile)

NoResult == CallResult(ProcessingError(<<>>), {}, <<>>, FALSE, <<>>, <<>>)

VARIABLES
    \* one invocation of callAction: the module, the request, what the child
    \* produced (exec, dir), and once it returned (phase) its result
    call,
    \* the module registry: module name -> loaded module
    modules,
    \* the module files the startup has tried to load
    tried,
    \* the outcome of the latest load: what the constructor threw and the
    \* object it was building
    lastLoad,
    \* the requests delivered so far, by arrival number
    requests,
    \* where the worker of each request is: "new" (not delivered), "accepted",
    \* "spawned" (child forked, pid callback pending), "waiting" (for the
    \* child's exit), "done"
    pc,
    \* the child of each request: state "none", "running" or "exited", and
    \* once exited what lth_exec::execute reports of it
    child,
    \* the results directory of each request
    dirs,
    \* the calls of Connector::send, in order
    log,
    \* one call followed step by step: where the parent (ppc) and the child
    \* (cpc) are, the files on disk (fs), the child's pipes, what a reader of
    \* the pid file saw last (seen) and who wrote which path (wrote)
    task,
    \* the metadata probes made so far, in order: the module file, the config
    \* given, what the probe produced (exec) and what loading made of it
    probed

callVars == <<call>>
loadVars == <<modules, tried, lastLoad>>
procVars == <<requests, pc, child, dirs, log>>
taskVars == <<task>>
probeVars == <<probed>>
vars == <<call, modules, tried, lastLoad, requests, pc, child, dirs, log, task, probed>>

NoExec == [exit_code |-> EXIT_SUCCESS, output |-> <<>>, error |-> <<>>]
NoRequest == Request(<<>>, <<>>, <<>>, <<>>, <<>>, "Blocking", JNull, <<>>, 0, <<>>)

\* the file system: path -> content, for the files that exist
NoFiles == [path \in {} |-> <<>>]

\* what the child of the followed call will do: the text it prints as its
\* results, how it ends ("normal", "exit" with the status exit, "raise" for
\* an uncaught exception), and which of its output files cannot be opened
Plan(out, exit, ending, open_fails) == [out |-> out, exit |-> exit, ending |-> ending, open_fails |-> open_fails]

IdleTask ==
    [ppc |-> "idle", cpc |-> "none", m |-> EchoModule, request |-> NoRequest,
     plan |-> Plan(<<>>, EXIT_SUCCESS, "normal", "none"), input_txt |-> <<>>, cb |-> 0,
     ndebug |-> FALSE,
     fs |-> NoFiles, pipe_out |-> <<>>, pipe_err |-> <<>>,
     exit_code |-> EXIT_SUCCESS, exec |-> NoExec, seen |-> NoFile, wrote |-> {},
     result |-> NoResult]

\* no request delivered, nothing sent
InitProc ==
    /\ task = IdleTask
    /\ probed = <<>>
    /\ requests = [n \in 1..MaxRequests |-> NoRequest]
    /\ pc = [n \in 1..MaxRequests |-> "new"]
    /\ child = [n \in 1..MaxRequests |-> [state |-> "none", exec |-> NoExec]]
    /\ dirs = [n \in 1..MaxRequests |-> EmptyDir]
    /\ log = <<>>

NoLoad == [path |-> EchoPath, thrown |-> "not tried", what |-> "",
           module |-> NewModule(EchoPath, JObj(<<>>))]
\* the registry after a startup that found the module `echo`
EchoRegistry == Str("echo") :> EchoModule

(***************************************************************************)
(* SpecCall: callAction applied to every outcome of a child.               *)
(***************************************************************************)
CallRequest(type) ==
    Request(Str("r1"), Str("t1"), Str("s1"), Str("echo"), Str("reflect"), type,
            JObj(<<>>), <<>>, 0,
            IF type = "NonBlocking" THEN Str("/spool/t1") ELSE <<>>)

\* stdout files of a results directory
OutFiles == {NoFile, LockedFile(<<TNum("1")>>)} \cup {File(t) : t \in OutTexts}
ErrFiles == {NoFile, LockedFile(<<TBad("warning: deprecated")>>)}
               \cup {File(t) : t \in ErrTexts}

BlockingCalls ==
    {[phase |-> "ready", m |-> EchoModule, request |-> CallRequest("Blocking"),
      exec |-> [exit_code |-> ec, output |-> out, error |-> err],
      dir |-> EmptyDir, result |-> NoResult] :
        ec \in ExitCodes, out \in OutTexts, err \in ErrTexts}

\* a non-blocking child's captured streams are short: its output goes to files
NonBlockingCalls ==
    {[phase |-> "ready", m |-> EchoModule, request |-> CallRequest("NonBlocking"),
      exec |-> [exit_code |-> ec, output |-> cap[1], error |-> cap[2]],
      dir |-> Dir(NoFile, of, ef, NoFile), result |-> NoResult] :
        ec \in ExitCodes,
        cap \in {<<<<>>, <<>>>>, <<<<TNum("1")>>, <<TBad("cannot open")>>>>},
        of \in OutFiles, ef \in ErrFiles}

IdleCall == [phase |-> "idle", m |-> EchoModule, request |-> CallRequest("Blocking"),
             exec |-> [exit_code |-> EXIT_SUCCESS, output |-> <<>>, error |-> <<>>],
             dir |-> EmptyDir, result |-> NoResult]

InitCall ==
    /\ call \in BlockingCalls \cup NonBlockingCalls
    /\ modules = EchoRegistry
    /\ tried = {}
    /\ lastLoad = NoLoad
    /\ InitProc

CallBlocking ==
    /\ call.phase = "ready"
    /\ call.request.type = "Blocking"
    /\ call' = [call EXCEPT !.phase = "returned",
                            !.result = callAction(call.m, call.request,
                                                  call.exec, call.dir)]
    /\ UNCHANGED <<probeVars, taskVars, loadVars, procVars>>

CallNonBlocking ==
    /\ call.phase = "ready"
    /\ call.request.type = "NonBlocking"
    /\ call' = [call EXCEPT !.phase = "returned",
                            !.result = callAction(call.m, call.request,
                                                  call.exec, call.dir)]
    /\ UNCHANGED <<probeVars, taskVars, loadVars, procVars>>

NextCall == CallBlocking \/ CallNonBlocking

SpecCall == InitCall /\ [][NextCall]_vars

(***************************************************************************)
(* Claims about callAction, checked under SpecCall.                        *)
(***************************************************************************)
\* JSON texts by generation rather than by parsing: the serializations of
\* the documents that fit in the enumerated texts (scalars, empty and
\* one-element containers over the tokens of OutTokens)
ScalarDocs == {JNull, JNum("1"), JArr(<<>>), JObj(<<>>)}
SmallDocs == ScalarDocs \cup {JArr(<<d>>) : d \in ScalarDocs}
IsJsonText(txt) == \E d \in SmallDocs : toString(d) = txt
DocOfText(txt) == CHOOSE d \in SmallDocs : toString(d) = txt

Returned == call.phase = "returned"
\* the call reached processRequestOutcome
ReachedParsing == Returned /\ call.result.parsed
Raised(what) ==
    /\ call.result.ret.thrown = "ProcessingError"
    /\ Contains(call.result.ret.msg, what)

\* C2: outcome parsing with an empty stdout text and a non-zero exit code
\* raises a ProcessingError whose message contains "returned no output on
\* stdout" and returns no ActionOutcome
C2_EmptyStdoutNonZeroExitRaises ==
    (ReachedParsing /\ call.result.out_txt = <<>>
        /\ call.exec.exit_code # EXIT_SUCCESS)
    => Raised("returned no output on stdout")

\* C3: outcome parsing with an empty stdout text and exit code 0 returns an
\* ActionOutcome whose results are null and raises nothing, blocking or not
C3_EmptyStdoutExitZeroIsNull ==
    (ReachedParsing /\ call.result.out_txt = <<>>
        /\ call.exec.exit_code = EXIT_SUCCESS)
    => /\ call.result.ret.thrown = "none"
       /\ call.result.ret.results = JNull
       /\ call.result.ret.exit_code = EXIT_SUCCESS

C3_Witness ==
    /\ ReachedParsing
    /\ call.request.type = "NonBlocking"
    /\ call.dir.stdout = File(<<>>)
    /\ call.exec.exit_code = EXIT_SUCCESS
    /\ call.result.ret.thrown = "none"

\* C4: for every exit code and request type, outcome parsing with a
\* non-empty stdout text that is not valid JSON raises a ProcessingError
\* whose message contains "returned invalid JSON on stdout"; no
\* ActionOutcome is returned
C4_InvalidJsonRaises ==
    (ReachedParsing /\ call.result.out_txt # <<>>
        /\ ~IsJsonText(call.result.out_txt))
    => Raised("returned invalid JSON on stdout")

C4_Witness ==
    /\ ReachedParsing
    /\ call.request.type = "Blocking"
    /\ call.exec.exit_code = EXIT_SUCCESS
    /\ call.exec.output = <<TPunct("["), TNum("1")>>
    /\ call.result.ret.thrown = "ProcessingError"

\* C5: a non-blocking call whose child exits with code 5 fails with
\* ProcessingError("failed to write output on file"); the stdout and stderr
\* files are not touched and nothing the child produced reaches outcome
\* parsing or the error
C5_FileErrorExitCode ==
    (Returned /\ call.request.type = "NonBlocking"
        /\ call.exec.exit_code = EXTERNAL_MODULE_FILE_ERROR_EC)
    => /\ call.result.ret = ProcessingError(Str("failed to write output on file"))
       /\ call.result.accessed = {}
       /\ ~call.result.parsed

C5_Witness ==
    /\ Returned
    /\ call.request.type = "NonBlocking"
    /\ call.exec.exit_code = EXTERNAL_MODULE_FILE_ERROR_EC
    /\ call.exec.output # <<>>
    /\ call.exec.error # <<>>
    /\ call.dir.stdout = File(<<TNum("1")>>)
    /\ call.dir.stderr.exists
    /\ call.result.ret.thrown = "ProcessingError"

\* the stdout text of the call: the captured stream of a blocking child, the
\* content of the stdout file of a non-blocking one
HasJsonStdout ==
    IF call.request.type = "Blocking"
    THEN IsJsonText(call.exec.output)
    ELSE call.dir.stdout.exists /\ call.dir.stdout.readable
            /\ IsJsonText(call.dir.stdout.content)
StdoutText ==
    IF call.request.type = "Blocking" THEN call.exec.output
    ELSE call.dir.stdout.content

\* C6: exit codes are passed through: for every exit code (5 on the
\* non-blocking path excepted) and a stdout that is valid JSON, the call
\* returns an ActionOutcome with that exit code and the parsed results
C6_ExitCodePassthrough ==
    (Returned /\ HasJsonStdout
        /\ ~(call.request.type = "NonBlocking"
                /\ call.exec.exit_code = EXTERNAL_MODULE_FILE_ERROR_EC))
    => /\ call.result.ret.thrown = "none"
       /\ call.result.ret.exit_code = call.exec.exit_code
       /\ call.result.ret.results = DocOfText(StdoutText)
       /\ call.result.ret.std_out = StdoutText

C6_Witness ==
    /\ Returned
    /\ call.request.type = "Blocking"
    /\ call.exec.exit_code = EXTERNAL_MODULE_FILE_ERROR_EC
    /\ call.exec.output = <<TPunct("["), TNum("1"), TPunct("]")>>
    /\ call.result.ret.thrown = "none"
    /\ call.result.ret.exit_code = EXTERNAL_MODULE_FILE_ERROR_EC

\* C7: reading the results of a non-blocking run raises an error only for an
\* existing stdout file that cannot be read ("failed to read"); a missing or
\* unreadable stderr file and a missing stdout file leave the text empty and
\* the call goes on to outcome parsing
C7_OnlyStdoutReadFailureIsFatal ==
    (Returned /\ call.request.type = "NonBlocking"
        /\ call.exec.exit_code # EXTERNAL_MODULE_FILE_ERROR_EC)
    => IF call.dir.stdout.exists /\ ~call.dir.stdout.readable
       THEN Raised("failed to read") /\ ~call.result.parsed
       ELSE /\ call.result.parsed
            /\ call.result.out_txt =
                  (IF call.dir.stdout.exists THEN call.dir.stdout.content ELSE <<>>)
            /\ call.result.err_txt =
                  (IF call.dir.stderr.exists /\ call.dir.stderr.readable
                   THEN call.dir.stderr.content ELSE <<>>)

C7_Witness ==
    /\ Returned
    /\ call.request.type = "NonBlocking"
    /\ call.dir.stdout = NoFile
    /\ call.dir.stderr = LockedFile(<<TBad("warning: deprecated")>>)
    /\ call.result.parsed
    /\ call.result.out_txt = <<>>
    /\ call.result.err_txt = <<>>
    /\ call.result.ret.thrown = "none"

(***************************************************************************)
(* SpecLoad: the startup loads the module files it finds, each once.       *)
(***************************************************************************)
ShoutAction ==
    JObj(<<JMem("name", JStr(Str("shout"))),
           JMem("description", JStr(Str("upper case"))),
           JMem("input", JObj(<<JMem("type", JStr(Str("object")))>>)),
           JMem("results", JObj(<<JMem("type", JStr(Str("string")))>>))>>)

\* schemas PCPClient::Schema rejects: "type" is no type name
BadInputAction(name) ==
    JObj(<<JMem("name", JStr(Str(name))),
           JMem("input", JObj(<<JMem("type", JNum("1"))>>)),
           JMem("results", JObj(<<JMem("type", JStr(Str("object")))>>))>>)
BadResultsAction(name) ==
    JObj(<<JMem("name", JStr(Str(name))),
           JMem("input", JObj(<<JMem("type", JStr(Str("object")))>>)),
           JMem("results", JObj(<<JMem("type", JStr(Str("strng")))>>))>>)
NoInputAction(name) ==
    JObj(<<JMem("name", JStr(Str(name))),
           JMem("results", JObj(<<JMem("type", JStr(Str("object")))>>))>>)

Metadata(actions) ==
    JObj(<<JMem("description", JStr(Str("a module"))), JMem("actions", JArr(actions))>>)
MetadataWithConfiguration(actions, schema) ==
    Set(Metadata(actions), "configuration", schema)

ObjectSchema == JObj(<<JMem("type", JStr(Str("object")))>>)
StringSchema == JObj(<<JMem("type", JStr(Str("string")))>>)
BadSchema == JObj(<<JMem("type", JNum("1"))>>)

\* what the metadata probe of a module file can produce
Probes ==
    { ProbeOk(EchoMetadata),
      ProbeOk(Metadata(<<ReflectAction, ShoutAction>>)),
      ProbeOk(MetadataWithConfiguration(<<ReflectAction>>, ObjectSchema)),
      ProbeOk(MetadataWithConfiguration(<<ReflectAction>>, StringSchema)),
      ProbeOk(MetadataWithConfiguration(<<ReflectAction>>, BadSchema)),
      \* valid metadata on stdout, a warning on stderr
      [ProbeOk(EchoMetadata) EXCEPT !.error = <<TBad("warning: deprecated")>>],
      \* valid metadata, exit code 1
      [ProbeOk(EchoMetadata) EXCEPT !.exit_code = 1],
      \* the file could not be executed: nothing on stdout
      [exit_code |-> 127, output |-> <<>>, error |-> <<>>],
      \* stdout cut short, stdout that is no JSON
      [ProbeOk(EchoMetadata) EXCEPT
           !.output = SubSeq(@, 1, Len(@) - 1)],
      [exit_code |-> EXIT_SUCCESS, output |-> <<TBad("usage: echo")>>, error |-> <<>>],
      \* metadata without `actions`, with `actions` that is no array
      ProbeOk(JObj(<<JMem("description", JStr(Str("x")))>>)),
      ProbeOk(JObj(<<JMem("description", JStr(Str("x"))),
                     JMem("actions", ObjectSchema)>>)),
      \* actions whose schemas cannot be built, first and later ones
      ProbeOk(Metadata(<<BadInputAction("reflect")>>)),
      ProbeOk(Metadata(<<ReflectAction, BadResultsAction("shout")>>)),
      ProbeOk(Metadata(<<ReflectAction, NoInputAction("shout")>>)),
      \* the same action name twice
      ProbeOk(Metadata(<<ReflectAction, ReflectAction>>)),
      ProbeOk(Metadata(<<ReflectAction, ShoutAction, ReflectAction>>)) }

ReversePath == [dir |-> Str("/opt/modules"), stem |-> Str("reverse"), ext |-> Str(".rb")]
ModuleFiles == {EchoPath, ReversePath}

\* the configs the agent may hold for a module
Configs == {JObj(<<>>), EchoConfig, JStr(Str("not an object"))}

\* the registry after the attempt r to load a module: a module is added
\* only when its constructor returned
addModule(registry, r) ==
    IF r.thrown = "none"
    THEN (r.module.module_name :> r.module) @@ registry
    ELSE registry

InitLoad ==
    /\ modules = <<>>
    /\ tried = {}
    /\ lastLoad = NoLoad
    /\ InitProc
    /\ call = IdleCall

LoadModule(path, exec) ==
    LET r == ExternalModuleNoConfig(path, exec) IN
    /\ path \notin tried
    /\ tried' = tried \cup {path}
    /\ lastLoad' = [path |-> path, thrown |-> r.thrown, what |-> r.what,
                    module |-> r.module]
    /\ modules' = addModule(modules, r)
    /\ UNCHANGED <<probeVars, taskVars, callVars, procVars>>

LoadModuleWithConfig(path, config, exec) ==
    LET r == ExternalModule(path, config, exec) IN
    /\ path \notin tried
    /\ tried' = tried \cup {path}
    /\ lastLoad' = [path |-> path, thrown |-> r.thrown, what |-> r.what,
                    module |-> r.module]
    /\ modules' = addModule(modules, r)
    /\ UNCHANGED <<probeVars, taskVars, callVars, procVars>>

NextLoad ==
    \/ \E path \in ModuleFiles, exec \in Probes : LoadModule(path, exec)
    \/ \E path \in ModuleFiles, config \in Configs, exec \in Probes :
           LoadModuleWithConfig(path, config, exec)

SpecLoad == InitLoad /\ [][NextLoad]_vars

(***************************************************************************)
(* Claims about loading, checked under SpecLoad.                           *)
(***************************************************************************)
HasBothSchemas(m) ==
    \A i \in 1..Len(m.actions) :
        /\ includesSchema(m.input_validator_, m.actions[i])
        /\ includesSchema(m.results_validator_, m.actions[i])

\* C9: every action name in the actions of a loaded module has an input
\* schema and a results schema registered under that name
C9_ActionsHaveSchemas ==
    /\ \A name \in DOMAIN modules : HasBothSchemas(modules[name])
    /\ lastLoad.thrown = "none" => HasBothSchemas(lastLoad.module)

C9_Witness ==
    \E name \in DOMAIN modules :
        /\ modules[name].actions = <<Str("reflect"), Str("shout")>>
        /\ lastLoad.thrown = "none"

\* C10: a load that fails ends with a LoadingError, adds no module to the
\* registry and leaves the modules loaded before as they were
C10_FailedLoadIsLoadingError ==
    [][(tried' # tried /\ lastLoad'.thrown # "none")
           => (lastLoad'.thrown = "LoadingError" /\ modules' = modules)]_vars

\* C11: no module is loaded with a config that violates the configuration
\* schema of its own metadata: validating the config of any loaded module
\* against the schema registered under its name succeeds
C11_LoadedConfigSatisfiesSchema ==
    \A name \in DOMAIN modules :
        validateConfiguration(modules[name]).thrown = "none"

NoDuplicates(names) ==
    \A i, j \in 1..Len(names) : names[i] = names[j] => i = j

\* C12: the actions of a loaded module hold no name twice, and a load from
\* metadata that lists a name twice yields no module
C12_ActionNamesUnique ==
    /\ \A name \in DOMAIN modules : NoDuplicates(modules[name].actions)
    /\ lastLoad.thrown = "none" => NoDuplicates(lastLoad.module.actions)

\* a load from metadata listing `reflect` twice has been tried and refused
\* while another module is loaded with two distinct actions
C12_Witness ==
    /\ lastLoad.thrown \notin {"none", "not tried"}
    /\ ~NoDuplicates(lastLoad.module.actions)
    /\ lastLoad.module.module_name \notin DOMAIN modules
    /\ \E name \in DOMAIN modules : Len(modules[name].actions) = 2

(***************************************************************************)
(* Spec: the request processor serving requests with the module `echo`     *)
(* loaded.  Each request has a worker; children run beside the workers.    *)
(***************************************************************************)
Digits == <<"0", "1", "2", "3", "4", "5", "6", "7", "8", "9">>

RECURSIVE to_string(_)
\* std::to_string of a non-negative integer
to_string(i) ==
    IF i < 10 THEN <<Digits[i + 1]>>
    ELSE to_string(i \div 10) \o <<Digits[(i % 10) + 1]>>

\* the n-th request comes from the n-th sender, in its own transaction
Senders == <<Str("controller-a"), Str("controller-b")>>
SenderOf(n) == Senders[((n - 1) % Len(Senders)) + 1]
RequestId(n) == <<"r">> \o to_string(n)
TransactionId(n) == <<"t">> \o to_string(n)
ResultsDir(n) == <<"/spool/">> \o TransactionId(n)
\* the pid the system gives the child of request n
ChildPid(n) == 4120 + n

\* what a request asks for: (module, action, params)
Targets ==
    { <<Str("echo"), Str("reflect"), JObj(<<JMem("x", JStr(Str("hi")))>>)>>,
      <<Str("echo"), Str("reflect"), JNum("42")>>,
      <<Str("echo"), Str("nope"), JObj(<<>>)>>,
      <<Str("ghost"), Str("reflect"), JObj(<<>>)>> }

\* the debug chunks of an envelope and its count of invalid ones
DebugChunks ==
    { <<<<>>, 0>>,
      <<<<JObj(<<JMem("hop", JNum("1"))>>), JObj(<<JMem("hop", JNum("2"))>>)>>, 0>>,
      <<<<JObj(<<JMem("hop", JNum("1"))>>)>>, 1>> }

\* what the child prints as its results
ResultTexts ==
    { <<>>,
      toString(JObj(<<JMem("y", JStr(Str("hi")))>>)),
      <<TNum("1")>>,
      <<TBad("oops")>> }

\* the child of a blocking call: its streams are captured
BlockingRuns ==
    {[exec |-> [exit_code |-> ec, output |-> out,
                error |-> IF ec = EXIT_SUCCESS THEN <<>>
                          ELSE <<TBad("warning: deprecated")>>],
      stdout |-> NoFile, stderr |-> NoFile, exitcode |-> NoFile] :
        ec \in {EXIT_SUCCESS, 1}, out \in ResultTexts}

\* the child of a non-blocking call: its streams go to the output files
NonBlockingRuns ==
    {[exec |-> [exit_code |-> ec, output |-> <<>>, error |-> <<>>],
      stdout |-> File(out),
      stderr |-> File(IF ec = EXIT_SUCCESS THEN <<>>
                      ELSE <<TBad("warning: deprecated")>>),
      exitcode |-> File(<<TNum(to_string(ec)[1]), TBad("\n")>>)] :
        ec \in {EXIT_SUCCESS, 1}, out \in ResultTexts}
    \cup
    { \* the output files could not be opened
      [exec |-> [exit_code |-> EXTERNAL_MODULE_FILE_ERROR_EC,
                 output |-> toString(JObj(<<JMem("error", JStr(Str("cannot open")))>>)),
                 error |-> <<>>],
       stdout |-> NoFile, stderr |-> NoFile, exitcode |-> NoFile],
      \* the stdout file was left unreadable
      [exec |-> [exit_code |-> EXIT_SUCCESS, output |-> <<>>, error |-> <<>>],
       stdout |-> LockedFile(toString(JObj(<<>>))), stderr |-> NoFile,
       exitcode |-> File(<<TNum("0"), TBad("\n")>>)],
      \* the module ignored output_files
      [exec |-> [exit_code |-> EXIT_SUCCESS, output |-> toString(JObj(<<>>)),
                 error |-> <<>>],
       stdout |-> NoFile, stderr |-> NoFile, exitcode |-> NoFile] }

\* the log with its entries after position from marked as sent for request n
TagFrom(lg, from, n) ==
    [i \in 1..Len(lg) |-> IF i > from THEN [lg[i] EXCEPT !.for = n] ELSE lg[i]]

\* the job id the agent assigns to a non-blocking request
JobId(request) == <<"job-">> \o request.transaction_id

InitServing ==
    /\ modules = EchoRegistry
    /\ tried = {EchoPath}
    /\ lastLoad = [NoLoad EXCEPT !.thrown = "none", !.module = EchoModule]
    /\ call = IdleCall
    /\ InitProc

\* an envelope that is no recognized request message: PCP error, nothing else
RejectEnvelope(n, ok) ==
    /\ pc[n] = "new"
    /\ \A i \in 1..(n - 1) : pc[i] # "new"
    /\ requests' = [requests EXCEPT ![n] =
           Request(RequestId(n), <<>>, SenderOf(n), <<>>, <<>>, "Blocking",
                   JNull, <<>>, 0, <<>>)]
    /\ log' = TagFrom(sendPCPError(log, RequestId(n), Str("invalid message"),
                                   <<SenderOf(n)>>, ok),
                      Len(log), n)
    /\ pc' = [pc EXCEPT ![n] = "done"]
    /\ UNCHANGED <<probeVars, taskVars, callVars, loadVars, child, dirs>>

\* steps 2 to 4 of the processor for the n-th envelope
ProcessRequest(n, type, target, dbg, ok) ==
    LET request ==
            Request(RequestId(n), TransactionId(n), SenderOf(n), target[1],
                    target[2], type, target[3], dbg[1], dbg[2],
                    IF type = "NonBlocking" THEN ResultsDir(n) ELSE <<>>)
        known == /\ request.module \in DOMAIN modules
                 /\ \E i \in 1..Len(modules[request.module].actions) :
                        modules[request.module].actions[i] = request.action
    IN
    /\ pc[n] = "new"
    /\ \A i \in 1..(n - 1) : pc[i] # "new"
    /\ requests' = [requests EXCEPT ![n] = request]
    /\ IF ~known
       THEN /\ log' = TagFrom(sendPXPError(log, request, Str("unknown action"), ok),
                              Len(log), n)
            /\ pc' = [pc EXCEPT ![n] = "done"]
       ELSE IF ~validate(modules[request.module].input_validator_,
                         request.params, request.action)
       THEN /\ log' = TagFrom(sendPXPError(log, request,
                                           Str("input validation failure"), ok),
                              Len(log), n)
            /\ pc' = [pc EXCEPT ![n] = "done"]
       ELSE IF type = "NonBlocking"
       THEN /\ log' = TagFrom(sendProvisionalResponse(log, request, ok), Len(log), n)
            /\ pc' = [pc EXCEPT ![n] = "accepted"]
       ELSE /\ log' = log
            /\ pc' = [pc EXCEPT ![n] = "accepted"]
    /\ UNCHANGED <<probeVars, taskVars, callVars, loadVars, child, dirs>>

\* lth_exec::execute forks the child
Launch(n) ==
    /\ pc[n] = "accepted"
    /\ child' = [child EXCEPT ![n].state = "running"]
    /\ pc' = [pc EXCEPT ![n] = IF requests[n].type = "NonBlocking"
                               THEN "spawned" ELSE "waiting"]
    /\ UNCHANGED <<probeVars, taskVars, callVars, loadVars, requests, dirs, log>>

\* the pid callback of a non-blocking call, run by the parent after the fork
PidCallback(n) ==
    /\ pc[n] = "spawned"
    /\ dirs' = [dirs EXCEPT ![n].pid = File(to_string(ChildPid(n)) \o <<"\n">>)]
    /\ pc' = [pc EXCEPT ![n] = "waiting"]
    /\ UNCHANGED <<probeVars, taskVars, callVars, loadVars, requests, child, log>>

\* the child runs to its exit
ChildRun(n, run) ==
    /\ child[n].state = "running"
    /\ run \in (IF requests[n].type = "Blocking"
                THEN BlockingRuns ELSE NonBlockingRuns)
    /\ child' = [child EXCEPT ![n] = [state |-> "exited", exec |-> run.exec]]
    /\ dirs' = [dirs EXCEPT ![n].stdout = run.stdout, ![n].stderr = run.stderr,
                            ![n].exitcode = run.exitcode]
    /\ UNCHANGED <<probeVars, taskVars, callVars, loadVars, requests, pc, log>>

\* execute returns; the call ends; steps 6 to 8 of the processor
Complete(n, ok) ==
    LET request == requests[n]
        m == modules[request.module]
        r == callAction(m, request, child[n].exec, dirs[n]).ret
    IN
    /\ pc[n] = "waiting"
    /\ child[n].state = "exited"
    /\ log' = TagFrom(
          IF r.thrown # "none"
          THEN sendPXPError(log, request, r.msg, ok)
          ELSE IF ~validate(m.results_validator_, r.results, request.action)
          THEN sendPXPError(log, request, Str("results validation failure"), ok)
          ELSE IF request.type = "Blocking"
          THEN sendBlockingResponse(log, request, r.results, ok)
          ELSE sendNonBlockingResponse(log, request, r.results, JobId(request), ok),
          Len(log), n)
    /\ pc' = [pc EXCEPT ![n] = "done"]
    /\ UNCHANGED <<probeVars, taskVars, callVars, loadVars, requests, child, dirs>>

Next ==
    \/ \E n \in 1..MaxRequests, ok \in BOOLEAN : RejectEnvelope(n, ok)
    \/ \E n \in 1..MaxRequests, type \in {"Blocking", "NonBlocking"},
          target \in Targets, dbg \in DebugChunks, ok \in BOOLEAN :
           ProcessRequest(n, type, target, dbg, ok)
    \/ \E n \in 1..MaxRequests : Launch(n)
    \/ \E n \in 1..MaxRequests : PidCallback(n)
    \/ \E n \in 1..MaxRequests, run \in BlockingRuns \cup NonBlockingRuns :
           ChildRun(n, run)
    \/ \E n \in 1..MaxRequests, ok \in BOOLEAN : Complete(n, ok)

Spec == InitServing /\ [][Next]_vars

(***************************************************************************)
(* Claims about the request processor and the connector (Spec).            *)
(***************************************************************************)
\* the attempts of the log that carry the transaction id of request n
OfTransaction(i, n, message_type) ==
    /\ log[i].message_type = message_type
    /\ Get(log[i].data, "transaction_id") = JStr(TransactionId(n))

NonBlockingRequests == {n \in 1..MaxRequests : requests[n].type = "NonBlocking"}

\* C1 (as amended): for every non-blocking transaction the provisional
\* response has been handed to the connector before the child is launched
\* and before the non-blocking final response is; no final response, sent or
\* failed, precedes the provisional response of its transaction.
C1_ProvisionalAttemptedFirst ==
    \A n \in NonBlockingRequests :
        /\ child[n].state # "none" =>
               \E i \in DOMAIN log : OfTransaction(i, n, "PROVISIONAL_RESPONSE_TYPE")
        /\ \A j \in DOMAIN log :
               OfTransaction(j, n, "NON_BLOCKING_RESPONSE_TYPE") =>
                   \E i \in 1..(j - 1) :
                       OfTransaction(i, n, "PROVISIONAL_RESPONSE_TYPE")
        /\ \A j \in DOMAIN log :
               OfTransaction(j, n, "PROVISIONAL_RESPONSE_TYPE") =>
                   \A i \in 1..(j - 1) :
                       ~OfTransaction(i, n, "NON_BLOCKING_RESPONSE_TYPE")

\* a non-blocking transaction with both of its responses on the wire
C1_Witness ==
    \E n \in NonBlockingRequests : \E i, j \in DOMAIN log :
        /\ i < j
        /\ child[n].state = "exited"
        /\ OfTransaction(i, n, "PROVISIONAL_RESPONSE_TYPE") /\ log[i].delivered
        /\ OfTransaction(j, n, "NON_BLOCKING_RESPONSE_TYPE") /\ log[j].delivered

\* C1 as stated: every non-blocking final response on the wire has the
\* provisional response of its transaction on the wire before it.
C1_ProvisionalOnWireFirst ==
    \A n \in NonBlockingRequests : \A j \in DOMAIN log :
        (OfTransaction(j, n, "NON_BLOCKING_RESPONSE_TYPE") /\ log[j].delivered) =>
            \E i \in 1..(j - 1) :
                /\ OfTransaction(i, n, "PROVISIONAL_RESPONSE_TYPE")
                /\ log[i].delivered

ResponseTypes ==
    {"PROVISIONAL_RESPONSE_TYPE", "BLOCKING_RESPONSE_TYPE",
     "NON_BLOCKING_RESPONSE_TYPE", "PXP_ERROR_MSG_TYPE"}

\* C8: every outbound response to a request R carries R's transaction id
\* and is addressed to R's sender alone.
C8_ResponsesCarryTransactionAndSender ==
    \A i \in DOMAIN log :
        log[i].message_type \in ResponseTypes =>
            /\ Get(log[i].data, "transaction_id")
                   = JStr(requests[log[i].for].transaction_id)
            /\ log[i].endpoints = <<requests[log[i].for].sender>>

\* two requests of different senders, one answered by a provisional and a
\* final response and the other by a PXP error
C8_Witness ==
    \E i, j, k \in DOMAIN log :
        /\ log[i].for # log[k].for
        /\ requests[log[i].for].sender # requests[log[k].for].sender
        /\ log[j].for = log[i].for
        /\ log[i].message_type = "PROVISIONAL_RESPONSE_TYPE"
        /\ log[j].message_type = "NON_BLOCKING_RESPONSE_TYPE"
        /\ log[k].message_type = "PXP_ERROR_MSG_TYPE"

\* the positions of the log holding the sends made for request n
SendsFor(n) == {i \in DOMAIN log : log[i].for = n}

\* an ActionRequest exists for the n-th envelope
IsActionRequest(n) == pc[n] # "new" /\ requests[n].transaction_id # <<>>

KnownAction(request) ==
    /\ request.module \in DOMAIN modules
    /\ \E i \in 1..Len(modules[request.module].actions) :
           modules[request.module].actions[i] = request.action

\* the request names no registered (module, action) or its params fail the
\* input schema of the action
Refused(n) ==
    /\ IsActionRequest(n)
    /\ \/ ~KnownAction(requests[n])
       \/ ~validate(modules[requests[n].module].input_validator_,
                    requests[n].params, requests[n].action)

\* C13: a request for an unknown (module, action), or with params that fail
\* the input schema, gets one send, a PXP error {transaction_id, id,
\* description} to its sender, and nothing else: no provisional response,
\* no child, no file, no blocking or non-blocking response.
C13_RefusedGetsOnePXPError ==
    \A n \in 1..MaxRequests :
        Refused(n) =>
            /\ pc[n] = "done"
            /\ child[n].state = "none"
            /\ dirs[n] = EmptyDir
            /\ \E i \in SendsFor(n) :
                   /\ SendsFor(n) = {i}
                   /\ log[i].message_type = "PXP_ERROR_MSG_TYPE"
                   /\ log[i].endpoints = <<requests[n].sender>>
                   /\ Get(log[i].data, "description").k = "str"
                   /\ log[i].data =
                          Set(Set(Set(JObj(<<>>), "transaction_id",
                                      JStr(requests[n].transaction_id)),
                                  "id", JStr(requests[n].id)),
                              "description", Get(log[i].data, "description"))

\* a non-blocking request for an unknown action and a request with invalid
\* params have both been refused
C13_Witness ==
    \E n, k \in 1..MaxRequests :
        /\ Refused(n) /\ ~KnownAction(requests[n])
        /\ requests[n].type = "NonBlocking"
        /\ Refused(k) /\ KnownAction(requests[k])

\* the call made for request n as it ended (the child has exited)
CallOf(n) ==
    callAction(modules[requests[n].module], requests[n], child[n].exec, dirs[n]).ret

\* the work for request n ran and failed: the call raised an error or its
\* results fail the results schema
FailedAfterRun(n) ==
    /\ IsActionRequest(n) /\ pc[n] = "done" /\ child[n].state = "exited"
    /\ \/ CallOf(n).thrown # "none"
       \/ ~validate(modules[requests[n].module].results_validator_,
                    CallOf(n).results, requests[n].action)

FinalTypes == {"BLOCKING_RESPONSE_TYPE", "NON_BLOCKING_RESPONSE_TYPE"}

\* C14: a PCP error is sent only for an envelope that is no request, and is
\* then all that is done for it; a failure after the ActionRequest exists
\* is reported by a PXP error, never by a PCP error and never next to a
\* blocking or non-blocking response of the same request.
C14_PCPErrorOnlyForEnvelope ==
    /\ \A i \in DOMAIN log :
           log[i].message_type = "ERROR_MSG_TYPE" =>
               /\ ~IsActionRequest(log[i].for)
               /\ SendsFor(log[i].for) = {i}
               /\ child[log[i].for].state = "none"
               /\ log[i].data =
                      Set(Set(JObj(<<>>), "id", JStr(requests[log[i].for].id)),
                          "description", Get(log[i].data, "description"))
    /\ \A n \in 1..MaxRequests :
           FailedAfterRun(n) =>
               /\ \E i \in SendsFor(n) : log[i].message_type = "PXP_ERROR_MSG_TYPE"
               /\ \A i \in SendsFor(n) :
                      log[i].message_type \notin FinalTypes \cup {"ERROR_MSG_TYPE"}

\* one envelope was rejected, one request failed with a ProcessingError
C14_Witness ==
    \E n, k \in 1..MaxRequests :
        /\ pc[n] = "done" /\ ~IsActionRequest(n)
        /\ FailedAfterRun(k) /\ CallOf(k).thrown = "ProcessingError"

Create(fs, path) == (path :> <<>>) @@ fs
AppendTo(fs, path, text) == [fs EXCEPT ![path] = @ \o text]
Rename(fs, from, to) ==
    [path \in (DOMAIN fs \ {from}) \cup {to} |->
        IF path = to THEN fs[from] ELSE fs[path]]
FileAt(fs, path) == IF path \in DOMAIN fs THEN File(fs[path]) ELSE NoFile

\* the results directory as callNonBlockingAction finds it
DirOf(fs, results_dir) ==
    Dir(FileAt(fs, PathIn(results_dir, "pid")),
        FileAt(fs, PathIn(results_dir, "stdout")),
        FileAt(fs, PathIn(results_dir, "stderr")),
        FileAt(fs, PathIn(results_dir, "exitcode")))

\* the paths whose file differs between two file systems
Changed(old, new) ==
    {path \in DOMAIN old \cup DOMAIN new : FileAt(old, path) # FileAt(new, path)}

\* mutant: the text is written into the file itself, opened with truncation
atomic_write_to_file_InPlace(fs, text, file_path, stage) ==
    CASE stage = 1 -> Create(fs, file_path)
      [] stage = 2 -> AppendTo(fs, file_path, text)
      [] OTHER -> fs

\* lth_file::atomic_write_to_file, stage by stage: open file_path + "~",
\* write the text to it, rename it to file_path
atomic_write_to_file(fs, text, file_path, stage) ==
    CASE stage = 1 -> Create(fs, file_path \o <<"~">>)
      [] stage = 2 -> AppendTo(fs, file_path \o <<"~">>, text)
      [] OTHER -> Rename(fs, file_path \o <<"~">>, file_path)

\* mutant: the pid without the newline
PidFileText_NoNewline(pid) == to_string(pid)

\* std::to_string(pid) + "\n"
PidFileText(pid) == to_string(pid) \o <<"\n">>

\* the params and the results documents of the followed call
TaskParams ==
    { JObj(<<>>),
      JObj(<<JMem("x", JStr(Str("hi")))>>),
      JObj(<<JMem("list", JArr(<<JNull, JNum("1")>>)),
             JMem("opts", JObj(<<JMem("deep", JArr(<<>>))>>))>>) }
TaskResults ==
    { JObj(<<>>),
      JObj(<<JMem("y", JStr(Str("hi")))>>),
      JObj(<<JMem("rows", JArr(<<JObj(<<>>), JNull>>))>>),
      JNum("1") }
TaskOutTexts == {toString(d) : d \in TaskResults} \cup {<<>>, <<TBad("oops")>>}

TaskRequest(type, params) ==
    Request(Str("r1"), Str("t1"), Str("controller-a"), Str("echo"), Str("reflect"),
            type, params, <<>>, 0,
            IF type = "NonBlocking" THEN Str("/spool/t1") ELSE <<>>)

\* how a child ends: normally, by exit 1, by an uncaught exception
Endings == {<<EXIT_SUCCESS, "normal">>, <<1, "exit">>, <<1, "raise">>}

Tasks ==
    {[IdleTask EXCEPT !.ppc = "ready", !.m = m,
                      !.request = TaskRequest(type, params),
                      !.plan = Plan(out, end[1], end[2], open_fails)] :
        m \in {EchoModule, EchoModuleWithConfig},
        type \in {"Blocking"}, params \in TaskParams, out \in TaskOutTexts,
        end \in Endings, open_fails \in {"none"}}
    \cup
    {[IdleTask EXCEPT !.ppc = "ready", !.m = m,
                      !.request = TaskRequest(type, params),
                      !.plan = Plan(out, end[1], end[2], open_fails)] :
        m \in {EchoModule, EchoModuleWithConfig}, type \in {"NonBlocking"},
        params \in TaskParams, out \in TaskOutTexts, end \in Endings,
        open_fails \in {"none", "stdout", "stderr", "exitcode"}}
    \cup
    \* a non-blocking request that reached callAction with no results
    \* directory, in a build with assert() compiled in or out (NDEBUG)
    {[IdleTask EXCEPT !.ppc = "ready",
                      !.request = [TaskRequest("NonBlocking", JObj(<<>>))
                                      EXCEPT !.results_dir = <<>>],
                      !.plan = Plan(out, EXIT_SUCCESS, "normal", "none"),
                      !.ndebug = ndebug] :
        out \in {<<>>, toString(JObj(<<>>))}, ndebug \in BOOLEAN}

InitTask ==
    /\ task \in Tasks
    /\ probed = <<>>
    /\ modules = EchoRegistry
    /\ tried = {EchoPath}
    /\ lastLoad = NoLoad
    /\ call = IdleCall
    /\ requests = [n \in 1..MaxRequests |-> NoRequest]
    /\ pc = [n \in 1..MaxRequests |-> "new"]
    /\ child = [n \in 1..MaxRequests |-> [state |-> "none", exec |-> NoExec]]
    /\ dirs = [n \in 1..MaxRequests |-> EmptyDir]
    /\ log = <<>>

PidPath == PathIn(task.request.results_dir, "pid")

\* the step of the parent changes the file system to fs
ParentWrites(fs) ==
    [task EXCEPT !.fs = fs,
                 !.wrote = @ \cup {<<"parent", path>> : path \in Changed(task.fs, fs)}]
ChildWrites(fs) ==
    [task EXCEPT !.fs = fs,
                 !.wrote = @ \cup {<<"child", path>> : path \in Changed(task.fs, fs)}]

\* assert(!request.resultsDir().empty()) of callAction
AssertHolds ==
    task.request.type = "NonBlocking" => (task.ndebug \/ task.request.results_dir # <<>>)

\* the assertion fails: abort() ends the process
AssertFails ==
    /\ task.ppc = "ready"
    /\ ~AssertHolds
    /\ task' = [task EXCEPT !.ppc = "aborted"]
    /\ UNCHANGED <<probeVars, callVars, loadVars, procVars>>

\* execute forks: the child gets the action arguments on its stdin
Fork ==
    /\ task.ppc = "ready"
    /\ AssertHolds
    /\ task' = [task EXCEPT
           !.ppc = IF task.request.type = "NonBlocking" THEN "callback" ELSE "waiting",
           !.cpc = "started",
           !.input_txt = getActionArguments(task.m, task.request)]
    /\ UNCHANGED <<probeVars, callVars, loadVars, procVars>>

\* the pid callback of callNonBlockingAction, one stage of the write at a time
PidCallbackStage ==
    /\ task.ppc = "callback"
    /\ task' = [ParentWrites(atomic_write_to_file(task.fs, PidFileText(ChildPid(1)),
                                                  PidPath, task.cb + 1))
                   EXCEPT !.cb = task.cb + 1,
                          !.ppc = IF task.cb = 2 THEN "waiting" ELSE "callback"]
    /\ UNCHANGED <<probeVars, callVars, loadVars, procVars>>

\* mutant: execute returns what the child has produced so far
Reap_NoWait ==
    /\ task.ppc = "waiting"
    /\ task.cpc # "none"
    /\ task' = [task EXCEPT
           !.ppc = "reaped",
           !.exec = [exit_code |-> task.exit_code, output |-> task.pipe_out,
                     error |-> task.pipe_err]]
    /\ UNCHANGED <<probeVars, callVars, loadVars, procVars>>

\* execute returns once the child has exited, with its exit code and pipes
Reap ==
    /\ task.ppc = "waiting"
    /\ task.cpc = "exited"
    /\ task' = [task EXCEPT
           !.ppc = "reaped",
           !.exec = [exit_code |-> task.exit_code, output |-> task.pipe_out,
                     error |-> task.pipe_err]]
    /\ UNCHANGED <<probeVars, callVars, loadVars, procVars>>

\* the rest of callBlockingAction / callNonBlockingAction (the assertion of
\* callAction was passed at the fork)
Return ==
    /\ task.ppc = "reaped"
    /\ task' = [task EXCEPT
           !.ppc = "returned",
           !.result = IF task.request.type = "Blocking"
                      THEN callBlockingAction(task.m, task.request, task.exec)
                      ELSE callNonBlockingAction(task.m, task.request, task.exec,
                               DirOf(task.fs, task.request.results_dir))]
    /\ UNCHANGED <<probeVars, callVars, loadVars, procVars>>

\* steps 6 to 8 of the processor for the followed call
Respond(ok) ==
    LET r == task.result.ret IN
    /\ task.ppc = "returned"
    /\ task' = [task EXCEPT !.ppc = "responded"]
    /\ log' =
          IF r.thrown # "none"
          THEN sendPXPError(log, task.request, r.msg, ok)
          ELSE IF ~validate(task.m.results_validator_, r.results, task.request.action)
          THEN sendPXPError(log, task.request, Str("results validation failure"), ok)
          ELSE IF task.request.type = "Blocking"
          THEN sendBlockingResponse(log, task.request, r.results, ok)
          ELSE sendNonBlockingResponse(log, task.request, r.results,
                                       JobId(task.request), ok)
    /\ UNCHANGED <<probeVars, callVars, loadVars, requests, pc, child, dirs>>

\* the child: args = JSON.parse($stdin.read), output_files = args["output_files"]
ChildArgs == ParseJson(task.input_txt).val
HasOutputFiles == Includes(ChildArgs, "output_files")
OutputFile(name) == Get(Get(ChildArgs, "output_files"), name).s

\* the text make_error_result(...).to_json prints when a file cannot be opened
OpenErrorText == toString(JObj(<<JMem("error", JStr(Str("Could not open output files")))>>))

\* $stdout.reopen(File.open(output_files["stdout"], 'w'))
ChildOpenStdout ==
    /\ task.cpc = "started" /\ HasOutputFiles
    /\ task' = IF task.plan.open_fails = "stdout"
               THEN [task EXCEPT !.cpc = "exited",
                                 !.pipe_out = OpenErrorText,
                                 !.exit_code = EXTERNAL_MODULE_FILE_ERROR_EC]
               ELSE [ChildWrites(Create(task.fs, OutputFile("stdout")))
                        EXCEPT !.cpc = "stdout open"]
    /\ UNCHANGED <<probeVars, callVars, loadVars, procVars>>

\* $stderr.reopen(File.open(output_files["stderr"], 'w')); on failure the
\* error goes to $stdout, which is the stdout file by now
ChildOpenStderr ==
    /\ task.cpc = "stdout open"
    /\ task' = IF task.plan.open_fails = "stderr"
               THEN [ChildWrites(AppendTo(task.fs, OutputFile("stdout"), OpenErrorText))
                        EXCEPT !.cpc = "exited",
                               !.exit_code = EXTERNAL_MODULE_FILE_ERROR_EC]
               ELSE [ChildWrites(Create(task.fs, OutputFile("stderr")))
                        EXCEPT !.cpc = "running"]
    /\ UNCHANGED <<probeVars, callVars, loadVars, procVars>>

\* what the child writes on stderr while it runs
ErrOf(plan) == IF plan.exit = EXIT_SUCCESS THEN <<>> ELSE <<TBad("warning: deprecated")>>

\* the child runs; the first part of its results reaches stdout, and its
\* warnings stderr
ChildPrintHead ==
    LET head == SubSeq(task.plan.out, 1, IF task.plan.out = <<>> THEN 0 ELSE 1) IN
    /\ \/ task.cpc = "running"
       \/ task.cpc = "started" /\ ~HasOutputFiles
    /\ task' = IF HasOutputFiles
               THEN [ChildWrites(AppendTo(AppendTo(task.fs, OutputFile("stdout"), head),
                                          OutputFile("stderr"), ErrOf(task.plan)))
                        EXCEPT !.cpc = "printing"]
               ELSE [task EXCEPT !.cpc = "printing",
                                 !.pipe_out = @ \o head,
                                 !.pipe_err = @ \o ErrOf(task.plan)]
    /\ UNCHANGED <<probeVars, callVars, loadVars, procVars>>

\* the rest of the results reaches stdout
ChildPrintTail ==
    LET tail == SubSeq(task.plan.out, 2, Len(task.plan.out)) IN
    /\ task.cpc = "printing"
    /\ task' = IF HasOutputFiles
               THEN [ChildWrites(AppendTo(task.fs, OutputFile("stdout"), tail))
                        EXCEPT !.cpc = "printed"]
               ELSE [task EXCEPT !.cpc = "printed", !.pipe_out = @ \o tail]
    /\ UNCHANGED <<probeVars, callVars, loadVars, procVars>>

\* mutant: the at_exit block takes every ending for a normal one
AtExitStatus_AlwaysZero(plan) == EXIT_SUCCESS

\* the status computed by the at_exit block from $!: 0 when there is none,
\* its status when it is a SystemExit, 1 for any other exception
AtExitStatus(plan) ==
    CASE plan.ending = "normal" -> EXIT_SUCCESS
      [] plan.ending = "exit" -> plan.exit
      [] OTHER -> 1

\* the child exits; with output_files its at_exit block writes the status
\* to the exitcode file, or exits 5, the error printed on $stdout, when that
\* file cannot be opened
ChildExit ==
    /\ task.cpc = "printed"
    /\ task' = IF ~HasOutputFiles
               THEN [task EXCEPT !.cpc = "exited", !.exit_code = task.plan.exit]
               ELSE IF task.plan.open_fails = "exitcode"
               THEN [ChildWrites(AppendTo(task.fs, OutputFile("stdout"), OpenErrorText))
                        EXCEPT !.cpc = "exited",
                               !.exit_code = EXTERNAL_MODULE_FILE_ERROR_EC]
               ELSE [ChildWrites(AppendTo(Create(task.fs, OutputFile("exitcode")),
                                          OutputFile("exitcode"),
                                          to_string(AtExitStatus(task.plan)) \o <<"\n">>))
                        EXCEPT !.cpc = "exited", !.exit_code = task.plan.exit]
    /\ UNCHANGED <<probeVars, callVars, loadVars, procVars>>

\* another process reads <results_dir>/pid
ReadPid ==
    /\ task.request.type = "NonBlocking"
    /\ task.ppc \notin {"idle", "responded"}
    /\ task.seen # FileAt(task.fs, PidPath)
    /\ task' = [task EXCEPT !.seen = FileAt(task.fs, PidPath)]
    /\ UNCHANGED <<probeVars, callVars, loadVars, procVars>>

NextTask ==
    \/ AssertFails
    \/ Fork
    \/ PidCallbackStage
    \/ Reap
    \/ Return
    \/ \E ok \in BOOLEAN : Respond(ok)
    \/ ChildOpenStdout
    \/ ChildOpenStderr
    \/ ChildPrintHead
    \/ ChildPrintTail
    \/ ChildExit
    \/ ReadPid

SpecTask == InitTask /\ [][NextTask]_vars

(***************************************************************************)
(* Claims about the results directory and the documents passed (SpecTask). *)
(***************************************************************************)
NonBlockingTask == task.request.type = "NonBlocking"
\* execute has returned to callNonBlockingAction: the child's exit was seen
ExitObserved == task.ppc \in {"reaped", "returned", "responded"}
\* "<pid>\n" for the pid of the followed child
CompletePidFile == File(<<"4", "1", "2", "1", "\n">>)

\* C16 (as amended): in a non-blocking call, when execute returns, that is
\* when the parent has seen the child's exit, <results_dir>/pid exists and
\* holds the decimal pid of the child and a newline.
C16_PidWrittenBeforeExitObserved ==
    (NonBlockingTask /\ ExitObserved) => FileAt(task.fs, PidPath) = CompletePidFile

\* the parent has seen the exit of a child that ran to its end, with the
\* pid file in place
C16_Witness ==
    /\ NonBlockingTask /\ task.ppc = "reaped"
    /\ task.cpc = "exited" /\ task.plan.open_fails = "none"
    /\ FileAt(task.fs, PidPath) = CompletePidFile

\* C16 as stated: whenever the child of a non-blocking call has exited, the
\* pid file exists with the child's pid.
C16_PidWrittenBeforeChildExits ==
    (NonBlockingTask /\ task.cpc = "exited") =>
        FileAt(task.fs, PidPath) = CompletePidFile

\* C17: <results_dir>/pid is at every moment absent or complete, and so is
\* what a concurrent reader of it has seen.
C17_PidFileAbsentOrComplete ==
    /\ FileAt(task.fs, PidPath) \in {NoFile, CompletePidFile}
    /\ task.seen \in {NoFile, CompletePidFile}

\* the reader saw the pid file right after the rename, the child still running
C17_Witness ==
    /\ task.seen = CompletePidFile
    /\ task.ppc = "waiting"
    /\ task.cpc \notin {"none", "exited"}

\* C18: in a non-blocking call the stdout and stderr files are read after
\* the child's exit, and the texts read are all the child wrote to them.
C18_ReadsAfterChildExit ==
    (NonBlockingTask /\ task.result.accessed # {}) =>
        /\ task.cpc = "exited"
        /\ task.result.parsed
        /\ task.result.out_txt = task.plan.out
        /\ task.result.err_txt = ErrOf(task.plan)

\* a child that wrote its results in two parts and a warning was read whole
C18_Witness ==
    /\ NonBlockingTask /\ task.ppc = "returned"
    /\ <<"read", "stdout">> \in task.result.accessed
    /\ <<"read", "stderr">> \in task.result.accessed
    /\ Len(task.result.out_txt) > 2
    /\ task.result.err_txt # <<>>

ChildPaths ==
    {PathIn(task.request.results_dir, name) : name \in {"stdout", "stderr", "exitcode"}}

\* C19: the parent writes none of stdout, stderr, exitcode; the child
\* writes nothing but these three, so never pid; a blocking call writes no
\* file at all.
C19_WritersKeepToTheirFiles ==
    /\ \A w \in task.wrote :
           /\ w[1] = "parent" => w[2] \notin ChildPaths
           /\ w[1] = "child" => w[2] \in ChildPaths
    /\ ~NonBlockingTask => (task.wrote = {} /\ task.fs = NoFiles)

\* a non-blocking call in which the parent wrote pid and the child its three
\* files
C19_Witness ==
    /\ task.ppc = "responded"
    /\ <<"parent", PathIn(Str("/spool/t1"), "pid")>> \in task.wrote
    /\ \A path \in ChildPaths : <<"child", path>> \in task.wrote

\* the results document whose serialization the child printed, if any
PrintedResults == {d \in TaskResults : toString(d) = task.plan.out}

\* C20: the action arguments fed to the child hold the params of the
\* request under input, unchanged; a results document printed by the child
\* that satisfies the results schema is the results of the blocking or
\* non-blocking response, unchanged.
C20_JsonPassthrough ==
    /\ task.cpc # "none" =>
           /\ ParseJson(task.input_txt).ok
           /\ Get(ParseJson(task.input_txt).val, "input") = task.request.params
    /\ (task.ppc = "responded" /\ task.plan.open_fails = "none") =>
           \A d \in PrintedResults :
               validate(task.m.results_validator_, d, task.request.action) =>
                   /\ log[Len(log)].message_type \in FinalTypes
                   /\ Get(log[Len(log)].data, "results") = d

\* nested params went in and a nested results document came back
C20_Witness ==
    /\ task.ppc = "responded" /\ NonBlockingTask
    /\ Includes(task.request.params, "list")
    /\ log[Len(log)].message_type = "NON_BLOCKING_RESPONSE_TYPE"
    /\ Includes(Get(log[Len(log)].data, "results"), "rows")

(***************************************************************************)
(* SpecProbe: module files probed with `metadata` and loaded, more than    *)
(* once.  What a file prints is fixed by the file; the exit code of the    *)
(* probe is not.                                                           *)
(***************************************************************************)
TypeOnly(type) == JObj(<<JMem("type", JStr(Str(type)))>>)
Names(names) == JArr([i \in 1..Len(names) |-> JStr(Str(names[i]))])

\* mutant: a module that prints the number of the probe in its description
metadata_Counting ==
    JObj(<<JMem("description", JStr(<<"probe ">> \o to_string(Len(probed)))),
           JMem("actions", JArr(<<ReflectAction>>))>>)

\* the hash returned by metadata() of the module pxp-module-puppet
metadata ==
    JObj(<<
      JMem("description", JStr(Str("PXP Puppet module"))),
      JMem("actions", JArr(<<
        JObj(<<
          JMem("name", JStr(Str("run"))),
          JMem("description", JStr(Str("Start a Puppet run"))),
          JMem("input", JObj(<<
            JMem("type", JStr(Str("object"))),
            JMem("properties", JObj(<<JMem("env", TypeOnly("array")),
                                      JMem("flags", TypeOnly("array"))>>)),
            JMem("required", Names(<<"env", "flags">>))>>)),
          JMem("results", JObj(<<
            JMem("type", JStr(Str("object"))),
            JMem("properties", JObj(<<
              JMem("kind", TypeOnly("string")),
              JMem("time", TypeOnly("string")),
              JMem("transaction_uuid", TypeOnly("string")),
              JMem("environment", TypeOnly("string")),
              JMem("status", TypeOnly("string")),
              JMem("error_type", TypeOnly("string")),
              JMem("error", TypeOnly("string")),
              JMem("exitcode", TypeOnly("number")),
              JMem("version", TypeOnly("number"))>>)),
            JMem("required", Names(<<"kind", "time", "transaction_uuid",
                                     "environment", "status", "exitcode",
                                     "version">>))>>))>>)>>)),
      JMem("configuration", JObj(<<
        JMem("type", JStr(Str("object"))),
        JMem("properties", JObj(<<JMem("puppet_bin", TypeOnly("string"))>>))>>))>>)

PuppetPath == [dir |-> Str("/opt/modules"), stem |-> Str("pxp-module-puppet"), ext |-> <<>>]
NoisyPath == [dir |-> Str("/opt/modules"), stem |-> Str("noisy"), ext |-> Str(".rb")]
ProbeFiles == {PuppetPath, EchoPath, ReversePath, NoisyPath}

\* what the file at path writes when run with the argument `metadata`:
\* `puts metadata.to_json` for the puppet module; `noisy` prints valid
\* metadata and a warning on stderr
MetadataRun(path) ==
    CASE path = PuppetPath -> [output |-> toString(metadata), error |-> <<>>]
      [] path = EchoPath -> [output |-> toString(EchoMetadata), error |-> <<>>]
      [] path = ReversePath ->
             [output |-> toString(Metadata(<<ReflectAction, ShoutAction>>)),
              error |-> <<>>]
      [] OTHER -> [output |-> toString(EchoMetadata),
                   error |-> <<TBad("warning: deprecated")>>]

PuppetConfig == JObj(<<JMem("puppet_bin", JStr(Str("/opt/puppetlabs/bin/puppet")))>>)

InitProbe ==
    /\ modules = <<>>
    /\ tried = {}
    /\ lastLoad = NoLoad
    /\ call = IdleCall
    /\ InitProc

\* the record of a probe and of the load made from it
Probed(path, config, exec, r) == [path |-> path, config |-> config, exec |-> exec, result |-> r]

\* the file is probed and loaded by ExternalModule(path)
ProbeAndLoad(path, exit_code) ==
    LET run == MetadataRun(path)
        exec == [exit_code |-> exit_code, output |-> run.output, error |-> run.error]
        r == ExternalModuleNoConfig(path, exec)
    IN
    /\ Len(probed) < MaxProbes
    /\ probed' = Append(probed, Probed(path, JObj(<<>>), exec, r))
    /\ tried' = tried \cup {path}
    /\ lastLoad' = [path |-> path, thrown |-> r.thrown, what |-> r.what,
                    module |-> r.module]
    /\ modules' = addModule(modules, r)
    /\ UNCHANGED <<callVars, procVars, taskVars>>

\* the file is probed and loaded by ExternalModule(path, config)
ProbeAndLoadWithConfig(path, config, exit_code) ==
    LET run == MetadataRun(path)
        exec == [exit_code |-> exit_code, output |-> run.output, error |-> run.error]
        r == ExternalModule(path, config, exec)
    IN
    /\ Len(probed) < MaxProbes
    /\ probed' = Append(probed, Probed(path, config, exec, r))
    /\ tried' = tried \cup {path}
    /\ lastLoad' = [path |-> path, thrown |-> r.thrown, what |-> r.what,
                    module |-> r.module]
    /\ modules' = addModule(modules, r)
    /\ UNCHANGED <<callVars, procVars, taskVars>>

NextProbe ==
    \/ \E path \in ProbeFiles, exit_code \in {EXIT_SUCCESS, 1} :
           ProbeAndLoad(path, exit_code)
    \/ \E path \in ProbeFiles, config \in {PuppetConfig, EchoConfig},
          exit_code \in {EXIT_SUCCESS, 1} :
           ProbeAndLoadWithConfig(path, config, exit_code)

SpecProbe == InitProbe /\ [][NextProbe]_vars

(***************************************************************************)
(* Claims about probing and loading (SpecProbe).                           *)
(***************************************************************************)
\* the registrations of two loads are equivalent
SameRegistration(r1, r2) ==
    /\ r1.thrown = r2.thrown
    /\ r1.module.actions = r2.module.actions
    /\ r1.module.input_validator_ = r2.module.input_validator_
    /\ r1.module.results_validator_ = r2.module.results_validator_

C24_StderrAbortsLoading ==
    \A i \in DOMAIN probed :
        probed[i].exec.error # <<>> =>
            /\ probed[i].result.thrown = "LoadingError"
            /\ probed[i].result.what = "failed to load external module metadata"
            /\ probed[i].result.module.actions = <<>>
            /\ probed[i].result.module.input_validator_ = {}
            /\ probed[i].result.module.results_validator_ = {}
            /\ probed[i].path.stem \notin DOMAIN modules

\* the probe printed schema-valid metadata on stdout and a warning on stderr
C24_Witness ==
    \E i \in DOMAIN probed :
        /\ probed[i].exec.error # <<>>
        /\ ParseJson(probed[i].exec.output).ok
        /\ metadataValid(ParseJson(probed[i].exec.output).val)
        /\ probed[i].exec.exit_code = EXIT_SUCCESS

\* C27: two loads from probes with the same stdout and stderr, for the same
\* path and config, have the same outcome whatever the exit codes; a probe
\* with empty stderr and schema-valid metadata yields a loaded module.
C27_ExitCodeIgnored ==
    /\ \A i, j \in DOMAIN probed :
           (/\ probed[i].path = probed[j].path
            /\ probed[i].config = probed[j].config
            /\ probed[i].exec.output = probed[j].exec.output
            /\ probed[i].exec.error = probed[j].exec.error)
               => probed[i].result = probed[j].result
    /\ \A i \in DOMAIN probed :
           (/\ probed[i].exec.error = <<>>
            /\ ParseJson(probed[i].exec.output).ok
            /\ metadataValid(ParseJson(probed[i].exec.output).val))
               => probed[i].result.thrown = "none"

\* the same file loaded from a probe that exited 0 and from one that exited 1
C27_Witness ==
    /\ Len(probed) = 2
    /\ probed[1].path = probed[2].path /\ probed[1].config = probed[2].config
    /\ probed[1].exec.exit_code = EXIT_SUCCESS
    /\ probed[2].exec.exit_code = 1
    /\ probed[2].result.thrown = "none"
    /\ probed[2].path.stem \in DOMAIN modules

\* the keys of a JSON object
Keys(doc) == {doc.e[i].s : i \in 1..Len(doc.e)}

\* C22: the action arguments always hold input; they hold configuration
\* exactly when the config of the module is not empty, and output_files
\* exactly when the request is non-blocking, with the three entries stdout,
\* stderr, exitcode naming those files of the results directory.
C22_ActionArgumentsShape ==
    task.cpc # "none" =>
        LET args == ParseJson(task.input_txt).val IN
        /\ args.k = "obj"
        /\ Str("input") \in Keys(args)
        /\ Keys(args) \subseteq {Str("input"), Str("configuration"), Str("output_files")}
        /\ Str("configuration") \in Keys(args) <=> task.m.config_ # JObj(<<>>)
        /\ Str("configuration") \in Keys(args) =>
               Get(args, "configuration") = task.m.config_
        /\ Str("output_files") \in Keys(args) <=> NonBlockingTask
        /\ NonBlockingTask =>
               /\ Keys(Get(args, "output_files"))
                      = {Str("stdout"), Str("stderr"), Str("exitcode")}
               /\ Len(Get(args, "output_files").e) = 3
               /\ \A name \in {"stdout", "stderr", "exitcode"} :
                      Get(Get(args, "output_files"), name)
                          = JStr(task.request.results_dir \o <<"/", name>>)

\* a non-blocking call of a module with a config has been started
C22_Witness ==
    /\ task.cpc # "none" /\ NonBlockingTask
    /\ task.m.config_ = EchoConfig
    /\ task.request.results_dir = Str("/spool/t1")

\* C23: for a non-blocking request with an empty results_dir no child is
\* launched, no file is written and no outcome is returned.
C23_EmptyResultsDirNeverRuns ==
    (NonBlockingTask /\ task.request.results_dir = <<>>) =>
        /\ task.cpc = "none"
        /\ task.fs = NoFiles
        /\ task.ppc \notin {"returned", "responded"}

\* the decimal text of the exit code the parent observed, and a newline
ObservedStatusText == to_string(task.exit_code) \o <<"\n">>

\* C26: a child run with output_files that cannot open its stdout or stderr
\* file exits 5 and leaves no exitcode file; one that cannot open the
\* exitcode file exits 5; any other writes to the exitcode file the status
\* it exits with: 0 on a normal end, n after exit n, 1 after an exception.
C26_ExitcodeFileMatchesExit ==
    (task.cpc = "exited" /\ HasOutputFiles) =>
        IF task.plan.open_fails \in {"stdout", "stderr", "exitcode"}
        THEN /\ task.exit_code = EXTERNAL_MODULE_FILE_ERROR_EC
             /\ OutputFile("exitcode") \notin DOMAIN task.fs
        ELSE /\ FileAt(task.fs, OutputFile("exitcode")) = File(ObservedStatusText)
             /\ task.exit_code = (CASE task.plan.ending = "normal" -> 0
                                    [] task.plan.ending = "exit" -> task.plan.exit
                                    [] OTHER -> 1)

\* a child that raised an exception left 1 in its exitcode file and exited 1
C26_Witness ==
    /\ task.cpc = "exited" /\ HasOutputFiles
    /\ task.plan.ending = "raise" /\ task.plan.open_fails = "none"
    /\ task.exec.exit_code = 1 /\ task.ppc = "reaped"
    /\ FileAt(task.fs, OutputFile("exitcode")) = File(<<"1", "\n">>)

\* C25: the provisional response and the blocking response carry the debug
\* chunks of their request as they are and in order, also when the envelope
\* had invalid chunks; the non-blocking final response, the PXP error and the
\* PCP error carry none, so the chunks of a non-blocking transaction go out
\* in at most one message.
C25_DebugForwardedOnce ==
    /\ \A i \in DOMAIN log :
           IF log[i].message_type \in {"PROVISIONAL_RESPONSE_TYPE", "BLOCKING_RESPONSE_TYPE"}
           THEN log[i].debug = requests[log[i].for].debug
           ELSE log[i].debug = <<>>
    /\ \A n \in NonBlockingRequests :
           Cardinality({i \in SendsFor(n) : log[i].debug # <<>>}) <= 1

\* an envelope with one valid and one invalid debug chunk: its provisional
\* response carried the valid chunk and its final response none
C25_Witness ==
    \E n \in NonBlockingRequests : \E i, j \in SendsFor(n) :
        /\ requests[n].num_invalid_debug = 1
        /\ log[i].message_type = "PROVISIONAL_RESPONSE_TYPE"
        /\ log[i].debug = <<JObj(<<JMem("hop", JNum("1"))>>)>>
        /\ log[j].message_type = "NON_BLOCKING_RESPONSE_TYPE"
        /\ log[j].debug = <<>>

====
